---- MODULE Spec2Model ----
(***************************************************************************)
(* A model of the combat core of the tower-defense game: the wave          *)
(* scheduler (WaveManager), the attackers (EnemyBase on a PathSystem       *)
(* follower), the defenders (TowerBase with TargetingSystem), the          *)
(* projectiles (ProjectileBase), damage resolution (DamageSystem) and the  *)
(* ledger (Economy), driven by the frame loop of GameScene.update.         *)
(*                                                                         *)
(* Numbers.  JavaScript numbers are modelled in fixed point:               *)
(*   hit points and damage   in 1/10000 of a point        (Hp)             *)
(*   positions and distances in 1/10 of a pixel           (Px)             *)
(*   speeds                  in 1/10 pixel per second                      *)
(*   fire rates              in 1/1000 shot per second                     *)
(*   fractions (resist, slow, splash, buff) in percent                     *)
(*   times                   in milliseconds                               *)
(* All entities lie on one horizontal line (a path whose waypoints share   *)
(* their y), so every distance the code computes with sqrt is the          *)
(* absolute difference of two x coordinates.                               *)
(***************************************************************************)
EXTENDS Integers, Sequences, FiniteSets, TLC

VARIABLES
  time,               \* Phaser scene clock handed to update(), ms
  currentWave,        \* WaveManager.currentWave
  waveState,          \* WaveManager.waveState
  currentComposition, \* WaveManager.currentComposition
  spawnTimers,        \* WaveManager.spawnTimers (pending delayed calls)
  skipTimers,         \* delayed startNextWave calls left by skipToNextWave
  enemies,            \* GameScene.enemies
  towers,             \* GameScene.towers
  projectiles,        \* GameScene.projectiles
  gold,               \* Economy.gold
  lives,              \* registry 'lives'
  skipUsed,           \* history: skipToNextWave has been called
  idle,               \* frames played since a wave was last in progress
  call,               \* the arguments and history of the calls under study
  log                 \* what the last step did, in the order it did it

vars == <<time, currentWave, waveState, currentComposition, spawnTimers,
          skipTimers, enemies, towers, projectiles, gold, lives, skipUsed,
          idle, call, log>>

----------------------------------------------------------------------------
(* Bounds of the model *)

\* CONFIG.TOTAL_WAVES, bounded: the shipped configuration plays 20 waves.
TOTAL_WAVES == 2
\* Spec: frames a run lasts.
MaxFrames == 360
\* Spec: frames played in a row with no wave in progress.
MaxIdle == 2
\* SpecWave: attackers on the field at once.
MaxLive == 2
\* SpecSkip: delayed startNextWave calls pending at once.
MaxPendingSkips == 1
\* SpecWave: startNextWave calls counted past the last wave.
MaxOverrun == 2
\* Spec: towers restored from the snapshot.
MaxTowers == 2
\* SpecDamage: attackers in the pool handed to applyDamage.
MaxPool == 5
\* SpecEnemy: the latest wave an attacker is built for.
MaxWave == 90
\* SpecEnemy: takeDamage and addStatusEffect calls made on the attacker.
MaxCalls == 4
\* SpecEnemy: frames the attacker is updated for.
MaxEnemyFrames == 6
\* SpecTarget: attackers in the list handed to findTarget.
MaxCandidates == 3
\* SpecTower: the highest level a snapshot saves for a tower.
MaxSavedLevel == 6
\* SpecTower: update calls made on the tower.
MaxTicks == 6
MaxOps == 3
MaxTravel == 16
\* SpecCompose: the highest wave index a composition is generated for.
MaxWaveIndex == 10
\* SpecCompose: calls of generateWaveComposition.
MaxGenerated == 2
\* SpecSpeed: frames of the game loop, paused ones included.
MaxLoopFrames == 24
\* SpecSpeed: presses of a speed button.
MaxSpeedChanges == 1
\* SpecSpeed: pauses of the game scene.
MaxPauses == 1
\* SpecSpeed: frames a pause lasts.
MaxPausedFrames == 3
\* SpecLive: frames allowed for each wave of the game.
MaxWaveFrames == 300

----------------------------------------------------------------------------
(* Units and small helpers *)

Hp(n) == n * 10000
Px(n) == n * 10
Abs(n) == IF n < 0 THEN -n ELSE n
Min(a, b) == IF a < b THEN a ELSE b
Max(a, b) == IF a > b THEN a ELSE b
Sign(n) == IF n > 0 THEN 1 ELSE IF n < 0 THEN -1 ELSE 0

\* Utilities.distance on the line
distance(x1, x2) == Abs(x2 - x1)

\* Array.prototype.splice(i, 1), 1-based
RemoveAt(s, i) == [k \in 1..(Len(s) - 1) |-> IF k < i THEN s[k] ELSE s[k + 1]]

RECURSIVE SumCounts(_)
SumCounts(groups) ==
  IF groups = <<>> THEN 0 ELSE Head(groups).count + SumCounts(Tail(groups))

----------------------------------------------------------------------------
(* PricingBalance.ts *)

EnemyTypes == {"runner", "tank", "boss"}

ENEMY_STATS ==
  [runner |-> [baseHP |-> 50, baseSpeed |-> 100, baseArmor |-> 0,
               baseResist |-> 0, baseReward |-> 10],
   tank   |-> [baseHP |-> 200, baseSpeed |-> 40, baseArmor |-> 5,
               baseResist |-> 10, baseReward |-> 25],
   boss   |-> [baseHP |-> 1000, baseSpeed |-> 30, baseArmor |-> 10,
               baseResist |-> 20, baseReward |-> 100]]

\* Math.floor((wave - 1) / 5)
armorBonus(wave) == (wave - 1) \div 5

\* hp: floor(baseHP * (1 + (wave-1)*0.15)); speed: baseSpeed * (1 + (wave-1)*0.05);
\* resist: min(0.8, baseResist + (wave-1)*0.01); reward: floor(baseReward * (1 + (wave-1)*0.1))
getScaledEnemyStats(enemyType, wave) ==
  LET base == ENEMY_STATS[enemyType] IN
  [baseHP     |-> Hp((base.baseHP * (100 + (wave - 1) * 15)) \div 100),
   baseSpeed  |-> (Px(base.baseSpeed) * (20 + (wave - 1))) \div 20,
   baseArmor  |-> Hp(base.baseArmor + armorBonus(wave)),
   baseResist |-> Min(80, base.baseResist + (wave - 1)),
   baseReward |-> (base.baseReward * (10 + (wave - 1))) \div 10]

NoSpecial == [type |-> "none", value |-> 0, radius |-> 0, duration |-> 0]

TowerTypes == {"arrow", "cannon", "ice", "tesla", "support"}

TOWER_STATS ==
  [arrow   |-> [baseCost |-> 100, baseDamage |-> 15, baseRange |-> 150,
                baseFireRate |-> 1000, projectileSpeed |-> 400,
                upgradeCost |-> <<75, 150, 300>>, maxLevel |-> 4,
                special |-> NoSpecial],
   cannon  |-> [baseCost |-> 200, baseDamage |-> 40, baseRange |-> 180,
                baseFireRate |-> 500, projectileSpeed |-> 300,
                upgradeCost |-> <<150, 300, 600>>, maxLevel |-> 4,
                special |-> [type |-> "splash", value |-> 50, radius |-> 80,
                             duration |-> 0]],
   ice     |-> [baseCost |-> 150, baseDamage |-> 10, baseRange |-> 160,
                baseFireRate |-> 800, projectileSpeed |-> 350,
                upgradeCost |-> <<100, 200, 400>>, maxLevel |-> 4,
                special |-> [type |-> "slow", value |-> 50, radius |-> 0,
                             duration |-> 2]],
   tesla   |-> [baseCost |-> 250, baseDamage |-> 25, baseRange |-> 140,
                baseFireRate |-> 1500, projectileSpeed |-> 600,
                upgradeCost |-> <<180, 360, 720>>, maxLevel |-> 4,
                special |-> [type |-> "chain", value |-> 300, radius |-> 0,
                             duration |-> 0]],
   support |-> [baseCost |-> 180, baseDamage |-> 0, baseRange |-> 200,
                baseFireRate |-> 0, projectileSpeed |-> 0,
                upgradeCost |-> <<120, 240, 480>>, maxLevel |-> 4,
                special |-> [type |-> "buff", value |-> 25, radius |-> 200,
                             duration |-> 0]]]

\* the largest power of two below n, from k up
RECURSIVE PowerOfTwoBelow(_, _)
PowerOfTwoBelow(n, k) == IF 2 * k < n THEN PowerOfTwoBelow(n, 2 * k) ELSE k

\* Math.floor(totalCost * 0.7), the product an IEEE double: 0.7 is the double
\* 0.7 - 0.4 / 2^53, so a product that should be the integer n = 7 totalCost / 10
\* is n - (4 n / 7) / 2^53, and rounds to the double below n, which floors to
\* n - 1, when that is more than half the spacing 2^(k - 52) of the doubles
\* in (2^k, 2^(k+1)] that hold n; every other product is off an integer by
\* 0.1 at least and floors as the exact one does
floorRefund(totalCost) ==
  IF /\ totalCost > 0
     /\ totalCost % 10 = 0
     /\ 4 * ((7 * totalCost) \div 10)
          > 7 * PowerOfTwoBelow((7 * totalCost) \div 10, 1)
  THEN (7 * totalCost) \div 10 - 1
  ELSE (7 * totalCost) \div 10

\* getTowerTotalCost: the base cost and upgradeCost[i] for i < level - 1,
\* i < upgradeCost.length, from i up
RECURSIVE TotalCostLoop(_, _, _)
TotalCostLoop(towerType, level, i) ==
  IF i < level - 1 /\ i < Len(TOWER_STATS[towerType].upgradeCost)
  THEN TOWER_STATS[towerType].upgradeCost[i + 1]
         + TotalCostLoop(towerType, level, i + 1)
  ELSE 0

getTowerTotalCost(towerType, level) ==
  TOWER_STATS[towerType].baseCost + TotalCostLoop(towerType, level, 0)

\* getTowerSellValue: Math.floor(totalCost * TOWER_REFUND_PERCENT)
getTowerSellValue(towerType, level) ==
  floorRefund(getTowerTotalCost(towerType, level))

\* a variant whose runner count grows with the attackers the scheduler has
\* spawned so far
generateWaveCompositionSpawned(waveNumber) ==
  [wave |-> waveNumber,
   enemies |-> <<[type |-> "runner",
                  count |-> 5 + (waveNumber * 15) \div 10 + waveState.enemiesSpawned,
                  interval |-> 1000],
                 [type |-> "tank", count |-> waveNumber \div 2, interval |-> 2000]>>,
   reward |-> 25 + waveNumber * 5]

\* The composition of a wave: groups in spawn order (interval in ms) and the
\* completion reward.  Groups of count 0 stay in the list, as in the code.
generateWaveComposition(waveNumber) ==
  IF waveNumber % 5 = 0
  THEN [wave |-> waveNumber,
        enemies |-> <<[type |-> "runner", count |-> waveNumber \div 2, interval |-> 1500],
                      [type |-> "tank", count |-> waveNumber \div 3, interval |-> 2500],
                      [type |-> "boss", count |-> waveNumber \div 5, interval |-> 5000]>>,
        reward |-> 50 + waveNumber * 10]
  ELSE [wave |-> waveNumber,
        enemies |-> <<[type |-> "runner", count |-> 5 + (waveNumber * 15) \div 10,
                       interval |-> 1000],
                      [type |-> "tank", count |-> waveNumber \div 2, interval |-> 2000]>>,
        reward |-> 25 + waveNumber * 5]

\* currentComposition = null
NoComposition == [wave |-> 0, enemies |-> <<>>, reward |-> 0]

----------------------------------------------------------------------------
(* Config.ts *)

STARTING_GOLD == 500
STARTING_LIVES == 20
WIDTH == 1280
TILE_SIZE == 64

----------------------------------------------------------------------------
(* Path.ts: the waypoints of the level, on one line *)

path == <<Px(0), Px(150), Px(300)>>

initializeFollower ==
  [currentWaypointIndex |-> 0,
   targetWaypoint |-> IF Len(path) > 1 THEN 1 ELSE -1,
   distanceTraveled |-> 0]

\* updateFollower after moveDistance = speed * (delta / 1000) is computed; the
\* recursive call hands on the remaining distance (remaining / speed * 1000 ms
\* at the same speed).  targetWaypoint is a 0-based index into path, -1 = null.
\* The result is [follower, x, ended]; ended is the code's null.
RECURSIVE MoveFollower(_, _, _)
MoveFollower(follower, currentX, moveDistance) ==
  IF follower.targetWaypoint = -1
  THEN [follower |-> follower, x |-> currentX, ended |-> TRUE]
  ELSE
    LET targetX == path[follower.targetWaypoint + 1]
        distToTarget == Abs(targetX - currentX)
    IN
    IF distToTarget <= moveDistance
    THEN
      LET idx == follower.currentWaypointIndex + 1
          f1 == [follower EXCEPT !.currentWaypointIndex = idx,
                                 !.distanceTraveled = @ + distToTarget]
      IN
      IF idx >= Len(path) - 1
      THEN [follower |-> [f1 EXCEPT !.targetWaypoint = -1], x |-> currentX,
            ended |-> TRUE]
      ELSE
        LET f2 == [f1 EXCEPT !.targetWaypoint = idx + 1]
            remaining == moveDistance - distToTarget
        IN
        IF remaining > 0
        THEN MoveFollower(f2, targetX, remaining)
        ELSE [follower |-> f2, x |-> targetX, ended |-> FALSE]
    ELSE
      [follower |-> [follower EXCEPT !.distanceTraveled = @ + moveDistance],
       x |-> currentX + Sign(targetX - currentX) * moveDistance,
       ended |-> FALSE]

\* a variant that goes on counting the distance past the end
updateFollowerPastEnd(follower, currentX, speed, delta) ==
  IF follower.targetWaypoint = -1
  THEN [follower |-> [follower EXCEPT !.distanceTraveled =
                                        @ + (speed * delta) \div 1000],
        x |-> currentX, ended |-> TRUE]
  ELSE MoveFollower(follower, currentX, (speed * delta) \div 1000)

updateFollower(follower, currentX, speed, delta) ==
  MoveFollower(follower, currentX, (speed * delta) \div 1000)

totalPathLength == path[Len(path)] - path[1]

\* getProgress, as the numerator of the fraction over totalPathLength
getProgress(follower) ==
  IF totalPathLength = 0 THEN 0 ELSE Min(totalPathLength, follower.distanceTraveled)

----------------------------------------------------------------------------
(* EnemyBase.ts *)

SPAWNING == 0
MOVING == 1
DYING == 2
DEAD == 3

\* new EnemyBase(scene, type, wave, pathSystem): the constructor leaves the
\* attacker MOVING at the start of the path.  id names the object; tween is
\* the elapsed time of the death tween, -1 while there is none; active is the
\* Phaser flag that destroy() clears.
NewEnemy(id, enemyType, wave) ==
  LET stats == getScaledEnemyStats(enemyType, wave) IN
  [id |-> id, enemyType |-> enemyType, wave |-> wave,
   maxHP |-> stats.baseHP, currentHP |-> stats.baseHP,
   baseSpeed |-> stats.baseSpeed, currentSpeed |-> stats.baseSpeed,
   armor |-> stats.baseArmor, resist |-> stats.baseResist,
   reward |-> stats.baseReward,
   enemyState |-> MOVING, x |-> path[1],
   pathFollower |-> initializeFollower,
   statusEffects |-> <<>>, active |-> TRUE, tween |-> -1]

isAlive(e) == e.enemyState = MOVING

\* a variant that removes a killed attacker at once
dieDirect(e) == [e EXCEPT !.enemyState = DEAD, !.active = FALSE]
\* die(): DYING, and a 200 ms tween whose completion makes the attacker DEAD
die(e) == [e EXCEPT !.enemyState = DYING, !.tween = 0]

DEATH_TWEEN_MS == 200

\* the tween's onComplete: DEAD, then destroy()
deathTweenComplete(e) == [e EXCEPT !.enemyState = DEAD, !.active = FALSE, !.tween = -1]

\* reachedEnd(): DEAD, then destroy()
reachedEnd(e) == [e EXCEPT !.enemyState = DEAD, !.active = FALSE]

\* a variant without the floor of 1 on physical damage
finalDamageNoFloor(e, amount, damageType) ==
  IF damageType = "physical"
  THEN amount - e.armor
  ELSE (amount * (100 - e.resist)) \div 100
\* the damage takeDamage subtracts
finalDamage(e, amount, damageType) ==
  IF damageType = "physical"
  THEN Max(Hp(1), amount - e.armor)
  ELSE (amount * (100 - e.resist)) \div 100

\* a variant without the test of the state
takeDamageAnyState(e, amount, damageType) ==
  LET e1 == [e EXCEPT !.currentHP = @ - finalDamage(e, amount, damageType)] IN
  IF e1.currentHP <= 0 THEN die(e1) ELSE e1

takeDamage(e, amount, damageType) ==
  IF e.enemyState # MOVING THEN e
  ELSE
    LET e1 == [e EXCEPT !.currentHP = @ - finalDamage(e, amount, damageType)] IN
    IF e1.currentHP <= 0 THEN die(e1) ELSE e1

\* the index of the first effect of the type, 0 when there is none
RECURSIVE FindEffect(_, _, _)
FindEffect(effects, type, i) ==
  IF i > Len(effects) THEN 0
  ELSE IF effects[i].type = type THEN i
  ELSE FindEffect(effects, type, i + 1)

\* a variant that stacks a second effect of the type
addStatusEffectStacking(e, effect, now) ==
  [e EXCEPT !.statusEffects = Append(@, [effect EXCEPT !.lastTick = now])]

addStatusEffect(e, effect, now) ==
  LET existingIndex == FindEffect(e.statusEffects, effect.type, 1) IN
  IF existingIndex > 0
  THEN [e EXCEPT !.statusEffects[existingIndex].duration = Max(@, effect.duration)]
  ELSE [e EXCEPT !.statusEffects = Append(@, [effect EXCEPT !.lastTick = now])]

\* updateStatusEffects: the loop from the last effect down to the first
RECURSIVE StatusLoop(_, _, _, _)
StatusLoop(e, i, delta, now) ==
  IF i < 1 THEN e
  ELSE
    LET effect == e.statusEffects[i]
        isDot == effect.type \in {"poison", "burn"} /\ effect.tickRate # 0
        ticks == isDot /\ now - effect.lastTick >= effect.tickRate
        e1 == IF ticks THEN takeDamage(e, effect.value, "magic") ELSE e
        eff1 == [effect EXCEPT !.duration = @ - delta,
                               !.lastTick = IF ticks THEN now ELSE @]
        e2 == IF eff1.duration <= 0
              THEN [e1 EXCEPT !.statusEffects = RemoveAt(@, i)]
              ELSE [e1 EXCEPT !.statusEffects[i] = eff1]
    IN StatusLoop(e2, i - 1, delta, now)

updateStatusEffects(e, delta, now) == StatusLoop(e, Len(e.statusEffects), delta, now)

\* getSlowMultiplier, in percent
RECURSIVE SlowestOf(_, _)
SlowestOf(effects, slowest) ==
  IF effects = <<>> THEN slowest
  ELSE SlowestOf(Tail(effects),
                 IF Head(effects).type = "slow"
                 THEN Min(slowest, 100 - Head(effects).value)
                 ELSE slowest)

getSlowMultiplier(e) == Max(10, SlowestOf(e.statusEffects, 100))

----------------------------------------------------------------------------
(* Economy.ts and the scheduler, as functions of the game record G:          *)
(* [currentWave, waveState, currentComposition, spawnTimers, gold, lives]    *)

\* a variant that credits whole tens only
addGoldWholeTens(G, amount) ==
  IF amount <= 0 THEN G ELSE [G EXCEPT !.gold = @ + (amount \div 10) * 10]

addGold(G, amount) == IF amount <= 0 THEN G ELSE [G EXCEPT !.gold = @ + amount]

\* a variant without the test of the balance
spendGoldOverdraft(G, amount) ==
  IF amount <= 0 THEN [economy |-> G, result |-> FALSE]
  ELSE [economy |-> [G EXCEPT !.gold = @ - amount], result |-> TRUE]

\* spendGold: [economy, result], result what the call returns
spendGold(G, amount) ==
  IF amount <= 0 THEN [economy |-> G, result |-> FALSE]
  ELSE IF G.gold < amount THEN [economy |-> G, result |-> FALSE]
  ELSE [economy |-> [G EXCEPT !.gold = @ - amount], result |-> TRUE]

\* a variant that affords everything
canAffordAlways(G, amount) == TRUE

canAfford(G, amount) == G.gold >= amount

\* a variant without Math.max
setGoldUnclamped(G, amount) == [G EXCEPT !.gold = amount]

setGold(G, amount) == [G EXCEPT !.gold = Max(0, amount)]

awardEnemyKill(G, reward) == addGold(G, reward)
awardWaveComplete(G, bonus) == addGold(G, bonus)
refundGold(G, amount) == addGold(G, amount)

IdleWaveState ==
  [currentWave |-> 0, isActive |-> FALSE, enemiesRemaining |-> 0,
   enemiesSpawned |-> 0, totalEnemies |-> 0]

\* scheduleSpawns: one delayed call per attacker, group after group, each
\* delay the running sum of the intervals
RECURSIVE GroupTimers(_, _, _)
GroupTimers(group, n, totalDelay) ==
  IF n = 0 THEN <<>>
  ELSE <<[delay |-> totalDelay + group.interval, elapsed |-> 0, type |-> group.type]>>
       \o GroupTimers(group, n - 1, totalDelay + group.interval)

\* a variant that restarts the running sum with every group
RECURSIVE scheduleSpawnsPerGroup(_, _)
scheduleSpawnsPerGroup(groups, totalDelay) ==
  IF groups = <<>> THEN <<>>
  ELSE GroupTimers(Head(groups), Head(groups).count, totalDelay)
       \o scheduleSpawnsPerGroup(Tail(groups), totalDelay)

RECURSIVE scheduleSpawns(_, _)
scheduleSpawns(groups, totalDelay) ==
  IF groups = <<>> THEN <<>>
  ELSE GroupTimers(Head(groups), Head(groups).count, totalDelay)
       \o scheduleSpawns(Tail(groups),
                         totalDelay + Head(groups).count * Head(groups).interval)

\* startNextWave: [G, ret]
startNextWave(G) ==
  IF G.waveState.isActive
  THEN [G |-> G, ret |-> FALSE]
  ELSE
    LET n == G.currentWave + 1
        comp == generateWaveComposition(n)
        totalEnemies == SumCounts(comp.enemies)
    IN
    IF n > TOTAL_WAVES
    THEN [G |-> [G EXCEPT !.currentWave = n], ret |-> FALSE]
    ELSE [G |-> [G EXCEPT !.currentWave = n,
                          !.currentComposition = comp,
                          !.waveState = [currentWave |-> n, isActive |-> TRUE,
                                         enemiesRemaining |-> totalEnemies,
                                         enemiesSpawned |-> 0,
                                         totalEnemies |-> totalEnemies],
                          !.spawnTimers = scheduleSpawns(comp.enemies, 0)],
          ret |-> TRUE]

\* completeWave with GameScene's onWaveComplete (addGold of the reward)
completeWave(G) ==
  IF G.currentComposition = NoComposition THEN G
  ELSE addGold([G EXCEPT !.waveState.isActive = FALSE, !.spawnTimers = <<>>],
               G.currentComposition.reward)

\* a variant that completes the wave one attacker early
onEnemyDestroyedEarly(G) ==
  IF ~G.waveState.isActive THEN G
  ELSE
    LET G1 == [G EXCEPT !.waveState.enemiesRemaining = @ - 1] IN
    IF /\ G1.waveState.enemiesRemaining <= 1
       /\ G1.waveState.enemiesSpawned >= G1.waveState.totalEnemies
    THEN completeWave(G1)
    ELSE G1

onEnemyDestroyed(G) ==
  IF ~G.waveState.isActive THEN G
  ELSE
    LET G1 == [G EXCEPT !.waveState.enemiesRemaining = @ - 1] IN
    IF /\ G1.waveState.enemiesRemaining <= 0
       /\ G1.waveState.enemiesSpawned >= G1.waveState.totalEnemies
    THEN completeWave(G1)
    ELSE G1

\* skipToNextWave up to the delayed call it leaves behind
skipToNextWave(G) ==
  IF G.waveState.isActive
  THEN completeWave([G EXCEPT !.spawnTimers = <<>>,
                              !.waveState.enemiesRemaining = 0,
                              !.waveState.enemiesSpawned = G.waveState.totalEnemies])
  ELSE G

\* GameScene.spawnEnemy callbacks
onDeathCallback(G, e) == onEnemyDestroyed(addGold(G, e.reward))
\* a variant that takes the life and does not tell the scheduler
onReachedEndCallbackUncounted(G) == [G EXCEPT !.lives = @ - 1]
onReachedEndCallback(G) == onEnemyDestroyed([G EXCEPT !.lives = @ - 1])

\* the object identity of the k-th attacker spawned in a wave
EnemyId(wave, k) == wave * 100 + k

\* the game record of the current state, and its write-back
Game ==
  [currentWave |-> currentWave, waveState |-> waveState,
   currentComposition |-> currentComposition, spawnTimers |-> spawnTimers,
   gold |-> gold, lives |-> lives]

SetGame(G) ==
  /\ currentWave' = G.currentWave
  /\ waveState' = G.waveState
  /\ currentComposition' = G.currentComposition
  /\ spawnTimers' = G.spawnTimers
  /\ gold' = G.gold
  /\ lives' = G.lives

\* WaveManager.spawnEnemy with GameScene.spawnEnemy: the attacker is pushed,
\* then enemiesSpawned is counted
spawnEnemy(G, es, type) ==
  [G |-> [G EXCEPT !.waveState.enemiesSpawned = @ + 1],
   enemies |-> Append(es, NewEnemy(EnemyId(G.currentWave, G.waveState.enemiesSpawned + 1),
                                   type, G.currentWave))]

----------------------------------------------------------------------------
(* What a step did: one uniform record per event *)

Ev(op, id, amount, kind) == [op |-> op, id |-> id, amount |-> amount, kind |-> kind]

NoCall == [made |-> FALSE, pool |-> <<>>, target |-> 0, data |-> [damage |-> 0, special |-> NoSpecial]]

----------------------------------------------------------------------------
(* TargetingSystem.ts *)

\* a variant that keeps the later of two equal candidates
RECURSIVE ArgBestLast(_, _, _)
ArgBestLast(vals, i, best) ==
  IF i > Len(vals) THEN best
  ELSE ArgBestLast(vals, i + 1, IF vals[i] >= vals[best] THEN i ELSE best)

\* the index of the first greatest value: Array.reduce keeps the earlier of
\* two equal candidates
RECURSIVE ArgBest(_, _, _)
ArgBest(vals, i, best) ==
  IF i > Len(vals) THEN best
  ELSE ArgBest(vals, i + 1, IF vals[i] > vals[best] THEN i ELSE best)

\* a variant that leaves out the attackers exactly at the range
inRangeStrict(towerX, range, es) ==
  SelectSeq([k \in 1..Len(es) |-> k],
            LAMBDA k : distance(towerX, es[k].x) < range /\ isAlive(es[k]))

\* the indices (into es) of the attackers in range and alive, in list order
inRange(towerX, range, es) ==
  SelectSeq([k \in 1..Len(es) |-> k],
            LAMBDA k : distance(towerX, es[k].x) <= range /\ isAlive(es[k]))

findFirst(es, idxs) ==
  idxs[ArgBest([k \in 1..Len(idxs) |-> getProgress(es[idxs[k]].pathFollower)], 1, 1)]

findClosest(towerX, es, idxs) ==
  idxs[ArgBest([k \in 1..Len(idxs) |-> -distance(towerX, es[idxs[k]].x)], 1, 1)]

\* EnemyBase.getCurrentHP(), which TargetingSystem calls
getCurrentHP(e) == e.currentHP

findStrongest(es, idxs) ==
  idxs[ArgBest([k \in 1..Len(idxs) |-> getCurrentHP(es[idxs[k]])], 1, 1)]

findWeakest(es, idxs) ==
  idxs[ArgBest([k \in 1..Len(idxs) |-> -getCurrentHP(es[idxs[k]])], 1, 1)]

\* the switch of findTarget over the attackers in range
selectTarget(towerX, es, idxs, mode) ==
  IF idxs = <<>> THEN 0
  ELSE IF mode = "first" THEN findFirst(es, idxs)
  ELSE IF mode = "closest" THEN findClosest(towerX, es, idxs)
  ELSE IF mode = "strongest" THEN findStrongest(es, idxs)
  ELSE IF mode = "weakest" THEN findWeakest(es, idxs)
  ELSE idxs[1]

\* findTarget: the index of the target in es, 0 for null
findTarget(towerX, range, es, mode) ==
  selectTarget(towerX, es, inRange(towerX, range, es), mode)

----------------------------------------------------------------------------
(* TowerBase.ts *)

\* updateStats: the stats of the tower's level
updateStats(t) ==
  LET base == TOWER_STATS[t.towerType]
      levelMultiplier == t.level - 1
  IN [t EXCEPT !.damage = (Hp(base.baseDamage) * (10 + 3 * levelMultiplier)) \div 10,
               !.range = (Px(base.baseRange) * (100 + 15 * levelMultiplier)) \div 100,
               !.fireRate = (base.baseFireRate * (10 + 2 * levelMultiplier)) \div 10]

\* new TowerBase(scene, x, y, towerType)
NewTower(x, towerType) ==
  updateStats([x |-> x, towerType |-> towerType, level |-> 1, damage |-> 0,
               range |-> 0, fireRate |-> 0, lastFireTime |-> 0,
               currentTarget |-> 0, targetingMode |-> "first"])

\* a variant without the test of the level
upgradeUnchecked(t) == updateStats([t EXCEPT !.level = @ + 1])

upgrade(t) ==
  IF t.level >= TOWER_STATS[t.towerType].maxLevel THEN t
  ELSE updateStats([t EXCEPT !.level = @ + 1])

\* getUpgradeCost: the cost of the next level, -1 for null at the last level
getUpgradeCost(t) ==
  IF t.level >= TOWER_STATS[t.towerType].maxLevel THEN -1
  ELSE TOWER_STATS[t.towerType].upgradeCost[t.level]

\* getSellValue: Math.floor(totalCost * 0.7), totalCost the base cost and
\* upgradeCost[i] for i < level - 1, from i up
RECURSIVE SellLoop(_, _)
SellLoop(t, i) ==
  IF i < t.level - 1
  THEN TOWER_STATS[t.towerType].upgradeCost[i + 1] + SellLoop(t, i + 1)
  ELSE 0

getSellValue(t) == floorRefund(TOWER_STATS[t.towerType].baseCost + SellLoop(t, 0))

\* a variant that waits for half the interval
onCooldownHalf(t, now) ==
  \/ t.fireRate = 0
  \/ (now - t.lastFireTime) * t.fireRate < 500000

\* time - lastFireTime < 1000 / fireRate, the fire rate in 1/1000 shot/s;
\* a fire rate of 0 divides to Infinity
onCooldown(t, now) ==
  \/ t.fireRate = 0
  \/ (now - t.lastFireTime) * t.fireRate < 1000000

\* shoot: the projectileData of a shot at attacker e
shoot(t, e) ==
  [towerType |-> t.towerType, startX |-> t.x, targetX |-> e.x, target |-> e.id,
   damage |-> t.damage, speed |-> Px(TOWER_STATS[t.towerType].projectileSpeed),
   special |-> TOWER_STATS[t.towerType].special]

\* update once findTarget has answered tg: currentTarget, and lastFireTime
\* when there is a target to shoot at
towerAimed(t, now, es, tg) ==
  [tower |-> [t EXCEPT !.currentTarget = IF tg = 0 THEN 0 ELSE es[tg].id,
                       !.lastFireTime = IF tg = 0 THEN @ ELSE now],
   target |-> tg]

\* update up to the shot: [tower, target], target the index in es or 0
towerUpdate(t, now, es) ==
  IF onCooldown(t, now) THEN [tower |-> t, target |-> 0]
  ELSE towerAimed(t, now, es, findTarget(t.x, t.range, es, t.targetingMode))

----------------------------------------------------------------------------
(* ProjectileBase.ts *)

\* updateVelocity towards targetX: the velocity is kept at distance 0
updateVelocity(x, targetX, speed, velocity) ==
  IF distance(x, targetX) > 0 THEN Sign(targetX - x) * speed ELSE velocity

\* new ProjectileBase(scene, data); the target is alive when a tower shoots.
\* fade is the elapsed time of the fade-out tween of miss(), -1 without one
NewProjectile(data, targetX) ==
  [towerType |-> data.towerType, x |-> data.startX, targetX |-> data.targetX,
   target |-> data.target, damage |-> data.damage, speed |-> data.speed,
   special |-> data.special,
   velocity |-> updateVelocity(data.startX, targetX, data.speed, 0),
   isHoming |-> TRUE, hasHit |-> FALSE, active |-> TRUE, fade |-> -1]

MISS_FADE_MS == 100

\* the index of the object id in es, 0 when the list no longer holds it
RECURSIVE IndexOfId(_, _, _)
IndexOfId(es, id, i) ==
  IF i > Len(es) THEN 0
  ELSE IF es[i].id = id THEN i
  ELSE IndexOfId(es, id, i + 1)

\* projectileData.target && projectileData.target.active: an attacker the
\* list has dropped was destroyed before
targetActive(p, es) ==
  LET ti == IndexOfId(es, p.target, 1) IN ti # 0 /\ es[ti].active

hit(p) == [p EXCEPT !.hasHit = TRUE, !.active = FALSE]
\* a variant of miss() without the fade-out that destroys the projectile
missWithoutFade(p) == [p EXCEPT !.hasHit = TRUE]
miss(p) == [p EXCEPT !.hasHit = TRUE, !.fade = 0]

\* update, the homing step: the velocity the projectile moves with
projectileAim(p, tracked, ti, es) ==
  IF p.isHoming /\ tracked
  THEN updateVelocity(p.x, es[ti].x, p.speed, p.velocity)
  ELSE p.velocity

\* update, the move: x += velocity * delta / 1000
projectileMove(p, v, delta) ==
  [p EXCEPT !.velocity = v, !.x = @ + (v * delta) \div 1000]

\* update, the tests after the move: contact with a tracked target, arrival
\* at targetX without one, the bounds of the playfield
projectileMoved(p1, tracked, ti, es) ==
  IF tracked /\ distance(p1.x, es[ti].x) < Px(20)
  THEN [p |-> hit(p1), outcome |-> "hit", target |-> ti]
  ELSE IF ~tracked /\ distance(p1.x, p1.targetX) < Px(20)
  THEN [p |-> miss(p1), outcome |-> "miss", target |-> 0]
  ELSE IF p1.x < -Px(100) \/ p1.x > Px(WIDTH) + Px(100)
  THEN [p |-> miss(p1), outcome |-> "miss", target |-> 0]
  ELSE [p |-> p1, outcome |-> "none", target |-> 0]

\* update: [p, outcome, target], outcome "hit", "miss" or "none", target the
\* index in es of the attacker hit
projectileUpdate(p, delta, es) ==
  IF p.hasHit THEN [p |-> p, outcome |-> "none", target |-> 0]
  ELSE projectileMoved(
         projectileMove(p, projectileAim(p, targetActive(p, es),
                                         IndexOfId(es, p.target, 1), es),
                        delta),
         targetActive(p, es), IndexOfId(es, p.target, 1), es)

----------------------------------------------------------------------------
(* DamageSystem.ts, on a record W with the fields enemies and log: every     *)
(* takeDamage and addStatusEffect call is appended to W.log in call order    *)

\* es[i].takeDamage(amount, damageType), logged under the name of its caller
damageCall(W, i, amount, damageType, op) ==
  [W EXCEPT !.enemies[i] = takeDamage(@, amount, damageType),
            !.log = Append(@, Ev(op, W.enemies[i].id, amount, damageType))]

chainRange == Px(150)

\* splash damage at distance dist: splashDamage * (1 - (dist / radius) * 0.5)
splashAmount(splashDamage, dist, radius) ==
  (splashDamage * (2 * radius - dist)) \div (2 * radius)

\* a variant that leaves out the attackers exactly at the radius
splashReachesStrict(es, epicenter, k, radius) ==
  /\ k # epicenter
  /\ isAlive(es[k])
  /\ distance(es[epicenter].x, es[k].x) < radius
\* whether the loop of applySplashDamage damages es[k]
splashReaches(es, epicenter, k, radius) ==
  /\ k # epicenter
  /\ isAlive(es[k])
  /\ distance(es[epicenter].x, es[k].x) <= radius

RECURSIVE SplashLoop(_, _, _, _, _)
SplashLoop(W, epicenter, k, splashDamage, radius) ==
  IF k > Len(W.enemies) THEN W
  ELSE SplashLoop(
         IF splashReaches(W.enemies, epicenter, k, radius)
         THEN damageCall(W, k,
                         splashAmount(splashDamage,
                                      distance(W.enemies[epicenter].x, W.enemies[k].x),
                                      radius),
                         "physical", "splash")
         ELSE W,
         epicenter, k + 1, splashDamage, radius)

applySplashDamage(W, epicenter, baseDamage, special) ==
  LET radius == IF special.radius = 0 THEN Px(80) ELSE Px(special.radius)
      splashDamage == (baseDamage * special.value) \div 100
  IN SplashLoop(W, epicenter, 1, splashDamage, radius)

applySlowEffect(W, target, special, now) ==
  LET slowEffect == [type |-> "slow", value |-> special.value,
                     duration |-> (IF special.duration = 0 THEN 2 ELSE special.duration) * 1000,
                     tickRate |-> 0, lastTick |-> 0]
  IN [W EXCEPT !.enemies[target] = addStatusEffect(@, slowEffect, now),
               !.log = Append(@, Ev("slow", W.enemies[target].id, slowEffect.duration, "slow"))]

\* a variant that takes the last attacker not yet hit and alive, however far
RECURSIVE nearestEnemyAny(_, _, _, _, _, _)
nearestEnemyAny(es, hitEnemies, sourceX, k, nearestEnemy, nearestDistance) ==
  IF k > Len(es) THEN nearestEnemy
  ELSE IF es[k].id \in hitEnemies \/ ~isAlive(es[k])
  THEN nearestEnemyAny(es, hitEnemies, sourceX, k + 1, nearestEnemy, nearestDistance)
  ELSE nearestEnemyAny(es, hitEnemies, sourceX, k + 1, k, nearestDistance)

\* the inner loop of applyChainLightning: the nearest attacker not yet hit and
\* alive, strictly nearer than nearestDistance; 0 for null
RECURSIVE nearestEnemy(_, _, _, _, _, _)
nearestEnemy(es, hitEnemies, sourceX, k, nearest, nearestDistance) ==
  IF k > Len(es) THEN nearest
  ELSE IF es[k].id \in hitEnemies \/ ~isAlive(es[k])
  THEN nearestEnemy(es, hitEnemies, sourceX, k + 1, nearest, nearestDistance)
  ELSE
    LET dist == distance(sourceX, es[k].x) IN
    IF dist < nearestDistance
    THEN nearestEnemy(es, hitEnemies, sourceX, k + 1, k, dist)
    ELSE nearestEnemy(es, hitEnemies, sourceX, k + 1, nearest, nearestDistance)

RECURSIVE Pow(_, _)
Pow(b, n) == IF n = 0 THEN 1 ELSE b * Pow(b, n - 1)

\* a variant without the decay
chainAmountFlat(chainDamage, i) == chainDamage
\* chainDamage * Math.pow(0.9, i)
chainAmount(chainDamage, i) == (chainDamage * Pow(9, i)) \div Pow(10, i)

RECURSIVE ChainLoop(_, _, _, _, _, _)
ChainLoop(W, currentSource, hitEnemies, i, maxChains, chainDamage) ==
  IF i >= maxChains THEN W
  ELSE
    LET n == nearestEnemy(W.enemies, hitEnemies, W.enemies[currentSource].x, 1, 0,
                          chainRange)
    IN
    IF n = 0 THEN W
    ELSE ChainLoop(damageCall(W, n, chainAmount(chainDamage, i), "magic", "chain"),
                   n, hitEnemies \cup {W.enemies[n].id}, i + 1, maxChains, chainDamage)

applyChainLightning(W, source, baseDamage, special) ==
  ChainLoop(W, source, {W.enemies[source].id}, 0, special.value \div 100,
            (baseDamage * 6) \div 10)

\* the special effect of a hit, after the direct damage
applySpecial(W, data, target, now) ==
  IF data.special.type = "splash"
  THEN applySplashDamage(W, target, data.damage, data.special)
  ELSE IF data.special.type = "slow"
  THEN applySlowEffect(W, target, data.special, now)
  ELSE IF data.special.type = "chain"
  THEN applyChainLightning(W, target, data.damage, data.special)
  ELSE W

\* a variant that resolves the special effect before the direct damage
applyDamageSpecialFirst(W, data, target, now) ==
  damageCall(applySpecial(W, data, target, now), target, data.damage, "physical",
             "direct")

applyDamage(W, data, target, now) ==
  applySpecial(damageCall(W, target, data.damage, "physical", "direct"),
               data, target, now)

\* calculateBuffMultiplier, the multipliers in 1/1000: every support tower of
\* the list [x, level, range, buffValue] within whose range the tower stands
\* adds buffValue x (1 + 0.2 x (level - 1)) to the damage multiplier and half
\* of that to the range multiplier; buffValue is in percent
RECURSIVE calculateBuffMultiplier(_, _)
calculateBuffMultiplier(towerX, supportTowers) ==
  IF supportTowers = <<>>
  THEN [damageMultiplier |-> 1000, rangeMultiplier |-> 1000]
  ELSE
    LET support == Head(supportTowers)
        buff == support.buffValue * (10 + 2 * (support.level - 1))
        rest == calculateBuffMultiplier(towerX, Tail(supportTowers))
    IN
    IF distance(towerX, support.x) <= support.range
    THEN [damageMultiplier |-> rest.damageMultiplier + buff,
          rangeMultiplier |-> rest.rangeMultiplier + buff \div 2]
    ELSE rest

----------------------------------------------------------------------------
(* The state after GameScene.create() of a new game, towers aside *)

InitGame ==
  /\ time = 0
  /\ currentWave = 0
  /\ waveState = IdleWaveState
  /\ currentComposition = NoComposition
  /\ spawnTimers = <<>>
  /\ skipTimers = <<>>
  /\ enemies = <<>>
  /\ projectiles = <<>>
  /\ gold = STARTING_GOLD
  /\ lives = STARTING_LIVES
  /\ skipUsed = FALSE
  /\ idle = 0
  /\ call = NoCall
  /\ log = <<>>

----------------------------------------------------------------------------
(* Scheduler steps *)

\* the SPACE key: waveManager.startNextWave()
StartNextWave ==
  /\ currentWave < TOTAL_WAVES + MaxOverrun
  /\ LET r == startNextWave(Game) IN
       /\ SetGame(r.G)
       /\ log' = <<Ev("startNextWave", 0, 0, IF r.ret THEN "true" ELSE "false")>>
  /\ UNCHANGED <<time, skipTimers, enemies, towers, projectiles, skipUsed, idle, call>>

\* waveManager.skipToNextWave(): force-complete, then a 100 ms delayed call
SkipToNextWave ==
  /\ Len(skipTimers) < MaxPendingSkips
  /\ SetGame(skipToNextWave(Game))
  /\ skipTimers' = Append(skipTimers, [delay |-> 100, elapsed |-> 0])
  /\ skipUsed' = TRUE
  /\ log' = <<Ev("skipToNextWave", 0, 0, "")>>
  /\ UNCHANGED <<time, enemies, towers, projectiles, idle, call>>

\* the delayed call of skipToNextWave comes due
SkipTimerFires ==
  /\ skipTimers # <<>>
  /\ currentWave < TOTAL_WAVES + MaxOverrun
  /\ LET r == startNextWave(Game) IN
       /\ SetGame(r.G)
       /\ log' = <<Ev("startNextWave", 0, 0, IF r.ret THEN "true" ELSE "false")>>
  /\ skipTimers' = Tail(skipTimers)
  /\ UNCHANGED <<time, enemies, towers, projectiles, skipUsed, idle, call>>

\* the earliest pending spawn timer comes due
SpawnTimerFires ==
  /\ spawnTimers # <<>>
  /\ Len(enemies) < MaxLive
  /\ LET r == spawnEnemy([Game EXCEPT !.spawnTimers = Tail(spawnTimers)], enemies,
                         Head(spawnTimers).type)
     IN /\ SetGame(r.G)
        /\ enemies' = r.enemies
        /\ log' = <<Ev("spawn", r.enemies[Len(r.enemies)].id, 0, Head(spawnTimers).type)>>
  /\ UNCHANGED <<time, skipTimers, towers, projectiles, skipUsed, idle, call>>

\* a hit takes the last hit points of a MOVING attacker: takeDamage, die()
EnemyKilled(i) ==
  /\ isAlive(enemies[i])
  /\ enemies' = [enemies EXCEPT ![i] = takeDamage(@, @.currentHP + @.armor, "physical")]
  /\ log' = <<Ev("takeDamage", enemies[i].id, enemies[i].currentHP + enemies[i].armor, "physical")>>
  /\ UNCHANGED <<time, currentWave, waveState, currentComposition, spawnTimers,
                 skipTimers, towers, projectiles, gold, lives, skipUsed, idle, call>>

\* the death tween of a DYING attacker completes: DEAD, onDeath, destroy();
\* the frame loop drops the destroyed attacker from the list
DeathTweenCompletes(i) ==
  /\ enemies[i].enemyState = DYING
  /\ SetGame(onDeathCallback(Game, enemies[i]))
  /\ enemies' = RemoveAt(enemies, i)
  /\ log' = <<Ev("dead", enemies[i].id, 0, "killed")>>
  /\ UNCHANGED <<time, skipTimers, towers, projectiles, skipUsed, idle, call>>

\* update() of a MOVING attacker finds the follower at the end of the path:
\* reachedEnd(), onReachedEnd, destroy(), and the loop drops it
EnemyReachesEnd(i) ==
  /\ isAlive(enemies[i])
  /\ SetGame(onReachedEndCallback(Game))
  /\ enemies' = RemoveAt(enemies, i)
  /\ log' = <<Ev("dead", enemies[i].id, 0, "reachedEnd")>>
  /\ UNCHANGED <<time, skipTimers, towers, projectiles, skipUsed, idle, call>>

InitWave == InitGame /\ towers = <<>>

NextWave ==
  \/ StartNextWave
  \/ SpawnTimerFires
  \/ \E i \in 1..Len(enemies) : EnemyKilled(i)
  \/ \E i \in 1..Len(enemies) : DeathTweenCompletes(i)
  \/ \E i \in 1..Len(enemies) : EnemyReachesEnd(i)

\* the scheduler under every order of spawns, kills, arrivals and SPACE keys
SpecWave == InitWave /\ [][NextWave]_vars

NextSkip ==
  \/ NextWave
  \/ SkipToNextWave
  \/ SkipTimerFires

\* the same with the debug call skipToNextWave, which no key is bound to
SpecSkip == InitWave /\ [][NextSkip]_vars

----------------------------------------------------------------------------
(* The frame loop, on the world record W:                                    *)
(* [G, enemies, towers, projectiles, log]                                    *)

World ==
  [G |-> Game, enemies |-> enemies, towers |-> towers,
   projectiles |-> projectiles, log |-> <<>>]

\* the Clock: the spawn timers that come due call WaveManager.spawnEnemy in
\* the order they were scheduled
spawned(W, r, type) ==
  [W EXCEPT !.G = r.G, !.enemies = r.enemies,
            !.log = Append(@, Ev("spawn", r.enemies[Len(r.enemies)].id, 0, type))]

RECURSIVE SpawnDue(_, _)
SpawnDue(W, due) ==
  IF due = <<>> THEN W
  ELSE SpawnDue(spawned(W, spawnEnemy(W.G, W.enemies, Head(due).type), Head(due).type),
                Tail(due))

advance(timers, delta) ==
  [k \in 1..Len(timers) |-> [timers[k] EXCEPT !.elapsed = @ + delta]]

fireDue(W, advanced) ==
  SpawnDue([W EXCEPT !.G.spawnTimers =
                       SelectSeq(advanced, LAMBDA t : t.elapsed < t.delay)],
           SelectSeq(advanced, LAMBDA t : t.elapsed >= t.delay))

clockUpdate(W, delta) == fireDue(W, advance(W.G.spawnTimers, delta))

\* the TweenManager: death tweens advance and complete (DEAD, onDeath,
\* destroy()), fade-outs of missed projectiles advance and complete (destroy())
RECURSIVE DeathTweens(_, _, _)
DeathTweens(W, i, delta) ==
  IF i > Len(W.enemies) THEN W
  ELSE
    LET e == W.enemies[i] IN
    IF e.tween < 0 THEN DeathTweens(W, i + 1, delta)
    ELSE IF e.tween + delta >= DEATH_TWEEN_MS
    THEN DeathTweens([W EXCEPT !.enemies[i] = deathTweenComplete(e),
                               !.G = onDeathCallback(@, e),
                               !.log = Append(@, Ev("dead", e.id, 0, "killed"))],
                     i + 1, delta)
    ELSE DeathTweens([W EXCEPT !.enemies[i].tween = @ + delta], i + 1, delta)

fadeUpdate(p, delta) ==
  IF p.fade < 0 THEN p
  ELSE IF p.fade + delta >= MISS_FADE_MS THEN [p EXCEPT !.active = FALSE, !.fade = -1]
  ELSE [p EXCEPT !.fade = @ + delta]

fadeAll(W, delta) ==
  [W EXCEPT !.projectiles = [k \in 1..Len(@) |-> fadeUpdate(@[k], delta)]]

tweensUpdate(W, delta) == fadeAll(DeathTweens(W, 1, delta), delta)

\* GameScene.update, first loop: every tower in list order
towerFired(W, i, t, e) ==
  [W EXCEPT !.towers[i] = t,
            !.projectiles = Append(@, NewProjectile(shoot(t, e), e.x)),
            !.log = Append(@, Ev("fire", e.id, i, t.towerType))]

towerUpdated(W, i, r) ==
  IF r.target = 0 THEN [W EXCEPT !.towers[i] = r.tower]
  ELSE towerFired(W, i, r.tower, W.enemies[r.target])

RECURSIVE TowersLoop(_, _, _)
TowersLoop(W, i, now) ==
  IF i > Len(W.towers) THEN W
  ELSE TowersLoop(towerUpdated(W, i, towerUpdate(W.towers[i], now, W.enemies)),
                  i + 1, now)

\* second loop: every projectile from the last to the first; a hit calls
\* DamageSystem.applyDamage; a destroyed projectile leaves the list
pruneProjectile(W, i) ==
  IF ~W.projectiles[i].active THEN [W EXCEPT !.projectiles = RemoveAt(@, i)] ELSE W

projectileUpdated(W, i, p, r, now) ==
  pruneProjectile(
    IF r.outcome = "hit"
    THEN applyDamage([W EXCEPT !.projectiles[i] = r.p,
                               !.log = Append(@, Ev("hit", p.target,
                                                    W.enemies[r.target].enemyState,
                                                    p.towerType))],
                     p, r.target, now)
    ELSE IF r.outcome = "miss"
    THEN [W EXCEPT !.projectiles[i] = r.p,
                   !.log = Append(@, Ev("miss", p.target, 0, p.towerType))]
    ELSE [W EXCEPT !.projectiles[i] = r.p],
    i)

RECURSIVE ProjectilesLoop(_, _, _, _)
ProjectilesLoop(W, i, delta, now) ==
  IF i < 1 THEN W
  ELSE ProjectilesLoop(
         projectileUpdated(W, i, W.projectiles[i],
                           projectileUpdate(W.projectiles[i], delta, W.enemies), now),
         i - 1, delta, now)

\* EnemyBase.update after the status effects: the follower moves, and the
\* attacker takes its place or reachedEnd() is called
enemyMoved(e1, r) ==
  IF r.ended
  THEN [e |-> reachedEnd([e1 EXCEPT !.pathFollower = r.follower]), ended |-> TRUE]
  ELSE [e |-> [e1 EXCEPT !.pathFollower = r.follower, !.x = r.x], ended |-> FALSE]

enemyMove(e1, delta) ==
  enemyMoved(e1, updateFollower(e1.pathFollower, e1.x,
                                (e1.currentSpeed * getSlowMultiplier(e1)) \div 100,
                                delta))

\* EnemyBase.update: [e, ended]; ended when reachedEnd() was called
enemyUpdate(e, delta, now) ==
  IF e.enemyState # MOVING THEN [e |-> e, ended |-> FALSE]
  ELSE enemyMove(updateStatusEffects(e, delta, now), delta)

\* third loop: every attacker from the last to the first; a destroyed
\* attacker leaves the list
pruneEnemy(W, i) ==
  IF ~W.enemies[i].active THEN [W EXCEPT !.enemies = RemoveAt(@, i)] ELSE W

enemyUpdated(W, i, e, r) ==
  pruneEnemy(
    IF r.ended
    THEN [W EXCEPT !.enemies[i] = r.e,
                   !.G = onReachedEndCallback(@),
                   !.log = Append(@, Ev("reachedEnd", e.id, 0, "reachedEnd"))]
    ELSE IF isAlive(e)
    THEN [W EXCEPT !.enemies[i] = r.e,
                   !.log = Append(@, Ev("move", e.id, r.e.x, "moved"))]
    ELSE [W EXCEPT !.enemies[i] = r.e],
    i)

RECURSIVE EnemiesLoop(_, _, _, _)
EnemiesLoop(W, i, delta, now) ==
  IF i < 1 THEN W
  ELSE EnemiesLoop(enemyUpdated(W, i, W.enemies[i],
                                enemyUpdate(W.enemies[i], delta, now)),
                   i - 1, delta, now)

projectilesUpdate(W, delta, now) == ProjectilesLoop(W, Len(W.projectiles), delta, now)
enemiesUpdate(W, delta, now) == EnemiesLoop(W, Len(W.enemies), delta, now)

\* a variant of GameScene.update that updates the attackers first
sceneUpdateEnemiesFirst(W, delta, now) ==
  projectilesUpdate(TowersLoop(enemiesUpdate(W, delta, now), 1, now), delta, now)

sceneUpdate(W, delta, now) ==
  enemiesUpdate(projectilesUpdate(TowersLoop(W, 1, now), delta, now), delta, now)

\* frame lengths the game loop hands to update, in ms
Deltas == {100}
Horizon == MaxFrames * 100

\* the state a frame leaves
FrameEnds(W, now) ==
  /\ time' = now
  /\ SetGame(W.G)
  /\ enemies' = W.enemies
  /\ towers' = W.towers
  /\ projectiles' = W.projectiles
  /\ log' = W.log
  /\ idle' = IF W.G.waveState.isActive THEN 0 ELSE idle + 1

\* one frame: the Clock, the TweenManager, then GameScene.update
Frame(delta) ==
  /\ time + delta <= Horizon
  /\ waveState.isActive \/ idle < MaxIdle
  /\ FrameEnds(sceneUpdate(tweensUpdate(clockUpdate(World, delta), delta), delta,
                           time + delta),
               time + delta)
  /\ UNCHANGED <<skipTimers, skipUsed, call>>

\* registry 'savedTowers': the towers of the snapshot a game is continued
\* from, each [x, type, level] at a place canPlaceTower accepted
TowerSites ==
  <<[x |-> Px(75), type |-> "arrow", level |-> 4],
    [x |-> Px(225), type |-> "ice", level |-> 1],
    [x |-> Px(225), type |-> "tesla", level |-> 1],
    [x |-> Px(360), type |-> "cannon", level |-> 2],
    [x |-> Px(460), type |-> "arrow", level |-> 2]>>

\* canPlaceTower among the saved towers: no two nearer than 50
Placeable(S) ==
  \A a, b \in S : a # b => distance(TowerSites[a].x, TowerSites[b].x) >= Px(50)

RECURSIVE Upgraded(_, _)
Upgraded(t, level) == IF level <= 1 THEN t ELSE Upgraded(upgrade(t), level - 1)

RECURSIVE loadSavedState(_, _)
loadSavedState(S, k) ==
  IF k > Len(TowerSites) THEN <<>>
  ELSE (IF k \in S
        THEN <<Upgraded(NewTower(TowerSites[k].x, TowerSites[k].type),
                        TowerSites[k].level)>>
        ELSE <<>>) \o loadSavedState(S, k + 1)

Init ==
  /\ InitGame
  /\ \E S \in SUBSET (1..Len(TowerSites)) :
       /\ Cardinality(S) <= MaxTowers
       /\ Placeable(S)
       /\ towers = loadSavedState(S, 1)

Next ==
  \/ StartNextWave
  \/ \E delta \in Deltas : Frame(delta)

\* the game: SPACE keys and frames
Spec == Init /\ [][Next]_vars

----------------------------------------------------------------------------
(* DamageSystem.applyDamage on its own: a hit resolved against a pool        *)

\* the gaps between neighbours of the pool, alternating, in pixels
GapPairs == {<<149, 149>>, <<150, 150>>, <<80, 80>>, <<81, 40>>, <<0, 100>>}

RECURSIVE PoolX(_, _)
PoolX(k, gaps) ==
  IF k <= 1 THEN Px(300)
  ELSE PoolX(k - 1, gaps) + Px(gaps[IF k % 2 = 0 THEN 1 ELSE 2])

\* a pool of n attackers of one type in wave 1, the k-th in line at PoolX(k),
\* listed from the first in line or from the last; one of them may be DYING
\* and one may be down to its last 5 hit points
Pool(n, gaps, reversed, enemyType, dying, weak) ==
  [k \in 1..n |->
     LET pos == IF reversed THEN n + 1 - k ELSE k
         e == [NewEnemy(EnemyId(1, pos), enemyType, 1) EXCEPT
                 !.x = PoolX(pos, gaps),
                 !.currentHP = IF pos = weak THEN Hp(5) ELSE @]
     IN IF pos = dying THEN die(e) ELSE e]

\* the projectileData of a tower of the type and level
DataOf(towerType, level) ==
  LET t == Upgraded(NewTower(0, towerType), level) IN
  [damage |-> t.damage, special |-> TOWER_STATS[towerType].special]

InitDamage ==
  /\ time = 0
  /\ currentWave = 0
  /\ waveState = IdleWaveState
  /\ currentComposition = NoComposition
  /\ spawnTimers = <<>>
  /\ skipTimers = <<>>
  /\ towers = <<>>
  /\ projectiles = <<>>
  /\ gold = STARTING_GOLD
  /\ lives = STARTING_LIVES
  /\ skipUsed = FALSE
  /\ idle = 0
  /\ log = <<>>
  /\ \E n \in 1..MaxPool, gaps \in GapPairs, reversed \in BOOLEAN,
        enemyType \in {"runner", "tank"}, towerType \in TowerTypes,
        level \in 1..2 :
       \E dying \in 0..n, weak \in 0..n, target \in 1..n :
         /\ enemies = Pool(n, gaps, reversed, enemyType, dying, weak)
         /\ call = [made |-> FALSE, pool |-> enemies, target |-> target,
                    data |-> DataOf(towerType, level)]

\* the onHit callback of a projectile: DamageSystem.applyDamage
ApplyDamage ==
  /\ ~call.made
  /\ LET W == applyDamage([enemies |-> enemies, log |-> <<>>], call.data,
                          call.target, time)
     IN /\ enemies' = W.enemies
        /\ log' = W.log
  /\ call' = [call EXCEPT !.made = TRUE]
  /\ UNCHANGED <<time, currentWave, waveState, currentComposition, spawnTimers,
                 skipTimers, towers, projectiles, gold, lives, skipUsed, idle>>

NextDamage == ApplyDamage

SpecDamage == InitDamage /\ [][NextDamage]_vars

----------------------------------------------------------------------------
(* EnemyBase on its own: one attacker, the calls of its public methods and   *)
(* the frames that update it                                                 *)

\* takeDamage(amount, damageType) arguments
DamageInputs ==
  {<<Hp(15), "physical">>, <<Hp(3), "physical">>, <<Hp(15), "magic">>,
   <<Hp(2000), "physical">>}

\* a StatusEffect: value in percent for a slow, in hit points for a DoT
StatusEffect(type, value, duration, tickRate) ==
  [type |-> type, value |-> value, duration |-> duration, tickRate |-> tickRate,
   lastTick |-> 0]

\* addStatusEffect(effect) arguments: damage over time, and slows
DotInputs ==
  {StatusEffect("poison", Hp(30), 1000, 500),
   StatusEffect("burn", Hp(30), 1000, 500)}

SlowInputs ==
  {StatusEffect("slow", 30, 2000, 0), StatusEffect("slow", 50, 1000, 0),
   StatusEffect("slow", 50, 2000, 0), StatusEffect("slow", 95, 1000, 0)}

\* call, in SpecEnemy: the number of calls made, the effect the last
\* addStatusEffect call handed over, and the slows handed over so far with
\* the time each runs out at
InitEnemy ==
  /\ time = 0
  /\ currentWave = 0
  /\ waveState = IdleWaveState
  /\ currentComposition = NoComposition
  /\ spawnTimers = <<>>
  /\ skipTimers = <<>>
  /\ towers = <<>>
  /\ projectiles = <<>>
  /\ gold = STARTING_GOLD
  /\ lives = STARTING_LIVES
  /\ skipUsed = FALSE
  /\ idle = 0
  /\ log = <<>>
  /\ call = [calls |-> 0, effect |-> StatusEffect("none", 0, 0, 0), slows |-> {}]
  /\ \E enemyType \in EnemyTypes, wave \in {1, 6, MaxWave} :
       enemies = <<NewEnemy(EnemyId(wave, 1), enemyType, wave)>>

\* enemy.takeDamage(amount, damageType)
TakeDamage(amount, damageType) ==
  /\ call.calls < MaxCalls
  /\ enemies' = <<takeDamage(enemies[1], amount, damageType)>>
  /\ log' = <<Ev("takeDamage", enemies[1].id, amount, damageType)>>
  /\ call' = [call EXCEPT !.calls = @ + 1]
  /\ UNCHANGED <<time, currentWave, waveState, currentComposition, spawnTimers,
                 skipTimers, towers, projectiles, gold, lives, skipUsed, idle>>

\* enemy.addStatusEffect(effect)
AddStatusEffect(effect) ==
  /\ call.calls < MaxCalls
  /\ enemies' = <<addStatusEffect(enemies[1], effect, time)>>
  /\ log' = <<Ev("addStatusEffect", enemies[1].id, effect.value, effect.type)>>
  /\ call' = [calls |-> call.calls + 1, effect |-> effect,
              slows |-> IF effect.type = "slow"
                        THEN call.slows \cup {[value |-> effect.value,
                                               until |-> time + effect.duration]}
                        ELSE call.slows]
  /\ UNCHANGED <<time, currentWave, waveState, currentComposition, spawnTimers,
                 skipTimers, towers, projectiles, gold, lives, skipUsed, idle>>

\* the state a frame of the attacker leaves: r is what update() made of
\* attacker e, factor the slowMultiplier update() moved it with
enemyFrameEnds(W, r, e, factor, now) ==
  /\ time' = now
  /\ enemies' = <<r.e>>
  /\ SetGame(IF r.ended THEN onReachedEndCallback(W.G) ELSE W.G)
  /\ log' = W.log \o
            (IF isAlive(e)
             THEN <<Ev(IF r.ended THEN "reachedEnd" ELSE "move", e.id, factor,
                       "update")>>
             ELSE <<>>)

enemyFrame(W, delta, now) ==
  enemyFrameEnds(W, enemyUpdate(W.enemies[1], delta, now), W.enemies[1],
                 getSlowMultiplier(updateStatusEffects(W.enemies[1], delta, now)),
                 now)

\* one frame of delta ms: the TweenManager, then enemy.update(time, delta)
\* while the scene still lists the attacker.  The TweenManager keeps the
\* death tween of an attacker after destroy(), so there are frames until the
\* tween has completed.
EnemyFrame(delta) ==
  /\ time + delta <= MaxEnemyFrames * 500
  /\ enemies[1].active \/ enemies[1].tween >= 0
  /\ enemyFrame(DeathTweens(World, 1, delta), delta, time + delta)
  /\ call' = [call EXCEPT !.slows = {s \in @ : s.until > time + delta}]
  /\ UNCHANGED <<skipTimers, towers, projectiles, skipUsed, idle>>

NextEnemy ==
  \/ \E d \in DamageInputs : TakeDamage(d[1], d[2])
  \/ \E effect \in DotInputs : AddStatusEffect(effect)
  \/ \E delta \in {500} : EnemyFrame(delta)

\* damage: hits and damage over time on an attacker of any type and wave
SpecEnemy == InitEnemy /\ [][NextEnemy]_vars

\* an attacker of the first wave
InitStatus == InitEnemy /\ enemies[1].wave = 1

NextStatus ==
  \/ \E effect \in SlowInputs \cup {StatusEffect("poison", Hp(30), 1000, 500)} :
       AddStatusEffect(effect)
  \/ \E delta \in {500} : EnemyFrame(delta)

\* status effects: slows and a poison handed to the attacker
SpecStatus == InitStatus /\ [][NextStatus]_vars

----------------------------------------------------------------------------
(* TargetingSystem.findTarget on its own: one call over a list of attackers  *)

TargetingModes == {"first", "closest", "strongest", "weakest"}

\* what an attacker of the list may be: its type, the time it has moved for
\* since it spawned (ms), and whether it was hit or killed on the way
CandidateShapes ==
  {[type |-> t[1], moved |-> t[2], hit |-> h, killed |-> d] :
     t \in {<<"runner", 500>>, <<"runner", 750>>, <<"runner", 2000>>,
            <<"tank", 5000>>},
     h \in BOOLEAN, d \in BOOLEAN}

\* the k-th attacker spawned, of the shape
Candidate(k, shape) ==
  LET e1 == enemyMove(NewEnemy(EnemyId(1, k), shape.type, 1), shape.moved).e
      e2 == IF shape.hit THEN takeDamage(e1, Hp(15), "physical") ELSE e1
  IN IF shape.killed THEN die(e2) ELSE e2

\* call, in SpecTarget: the arguments of findTarget and, once made, its result
InitTarget ==
  /\ time = 0
  /\ currentWave = 0
  /\ waveState = IdleWaveState
  /\ currentComposition = NoComposition
  /\ spawnTimers = <<>>
  /\ skipTimers = <<>>
  /\ towers = <<>>
  /\ projectiles = <<>>
  /\ gold = STARTING_GOLD
  /\ lives = STARTING_LIVES
  /\ skipUsed = FALSE
  /\ idle = 0
  /\ log = <<>>
  /\ \E n \in 0..MaxCandidates :
       \E shapes \in [1..n -> CandidateShapes] :
         enemies = [k \in 1..n |-> Candidate(k, shapes[k])]
  /\ \E towerX \in {Px(225), Px(250)}, mode \in TargetingModes :
       call = [made |-> FALSE, towerX |-> towerX,
               range |-> NewTower(towerX, "arrow").range, mode |-> mode,
               result |-> 0]

\* TargetingSystem.findTarget(towerX, towerY, range, enemies, mode)
FindTarget ==
  /\ ~call.made
  /\ call' = [call EXCEPT !.made = TRUE,
                          !.result = findTarget(call.towerX, call.range, enemies,
                                                call.mode)]
  /\ log' = <<Ev("findTarget", 0, 0, call.mode)>>
  /\ UNCHANGED <<time, currentWave, waveState, currentComposition, spawnTimers,
                 skipTimers, enemies, towers, projectiles, gold, lives, skipUsed,
                 idle>>

NextTarget == FindTarget

SpecTarget == InitTarget /\ [][NextTarget]_vars

----------------------------------------------------------------------------
(* TowerBase on its own: a tower restored from a snapshot, upgraded and      *)
(* updated with or without an attacker in range; the support towers beside   *)
(* it have no fire rate and never leave update's cooldown test               *)

\* the support towers that stand beside the tower at 225: none, one in
\* whose range it stands, two of them, one that is out of reach
SupportSites ==
  {<<>>,
   <<NewTower(Px(360), "support")>>,
   <<Upgraded(NewTower(Px(360), "support"), 2), NewTower(Px(90), "support")>>,
   <<NewTower(Px(460), "support")>>}

\* call, in SpecTower: the update calls made, the time of the last shot and
\* of the shot before it, -1 when there is none
InitTower ==
  /\ time = 0
  /\ currentWave = 0
  /\ waveState = IdleWaveState
  /\ currentComposition = NoComposition
  /\ spawnTimers = <<>>
  /\ skipTimers = <<>>
  /\ enemies = <<>>
  /\ projectiles = <<>>
  /\ gold = STARTING_GOLD
  /\ lives = STARTING_LIVES
  /\ skipUsed = FALSE
  /\ idle = 0
  /\ log = <<>>
  /\ call = [ticks |-> 0, lastFire |-> -1, prevFire |-> -1]
  /\ \E towerType \in TowerTypes, level \in 0..MaxSavedLevel,
        others \in SupportSites :
       towers = <<Upgraded(NewTower(Px(225), towerType), level)>> \o others

\* tower.upgrade(); the event carries 1 for the result true, 0 for false
Upgrade ==
  /\ towers' = [towers EXCEPT ![1] = upgrade(towers[1])]
  /\ log' = <<Ev("upgrade", 0, IF upgrade(towers[1]) = towers[1] THEN 0 ELSE 1,
                 towers[1].towerType)>>
  /\ UNCHANGED <<time, currentWave, waveState, currentComposition, spawnTimers,
                 skipTimers, enemies, projectiles, gold, lives, skipUsed, idle,
                 call>>

\* the state tower.update(now, es) leaves, r its outcome: projectiles holds
\* what the onShoot callback made of the shot, if there was one
towerTicked(r, es, now) ==
  /\ time' = now
  /\ enemies' = es
  /\ towers' = [towers EXCEPT ![1] = r.tower]
  /\ projectiles' = IF r.target = 0 THEN <<>>
                    ELSE <<NewProjectile(shoot(r.tower, es[r.target]),
                                         es[r.target].x)>>
  /\ log' = IF r.target = 0 THEN <<Ev("idle", 0, 1, r.tower.towerType)>>
            ELSE <<Ev("fire", es[r.target].id, 1, r.tower.towerType)>>
  /\ call' = [ticks |-> call.ticks + 1,
              lastFire |-> IF r.target = 0 THEN call.lastFire ELSE now,
              prevFire |-> IF r.target = 0 THEN call.prevFire ELSE call.lastFire]

towerTick(es, now) == towerTicked(towerUpdate(towers[1], now, es), es, now)

\* tower.update(time, enemies) delta ms after the last one, with a runner in
\* range or with nobody
TowerTick(delta, present) ==
  /\ call.ticks < MaxTicks
  /\ towerTick(IF present
               THEN <<Candidate(1, [type |-> "runner", moved |-> 2000,
                                    hit |-> FALSE, killed |-> FALSE])>>
               ELSE <<>>,
               time + delta)
  /\ UNCHANGED <<currentWave, waveState, currentComposition, spawnTimers,
                 skipTimers, gold, lives, skipUsed, idle>>

NextTower ==
  \/ Upgrade
  \/ \E delta \in {100, 400}, present \in BOOLEAN : TowerTick(delta, present)

SpecTower == InitTower /\ [][NextTower]_vars

----------------------------------------------------------------------------
(* Economy and GameScene.placeTower on their own: the calls that move gold   *)

\* worldToTile then tileToWorld: the centre of the tile of x
snapToGrid(x) == (x \div Px(TILE_SIZE)) * Px(TILE_SIZE) + Px(TILE_SIZE) \div 2

\* canPlaceTower: off the waypoints by 60, off every tower by 50, inside the
\* playfield by 50
canPlaceTower(ts, x) ==
  /\ \A k \in 1..Len(path) : ~(distance(x, path[k]) < Px(60))
  /\ \A k \in 1..Len(ts) : ~(distance(x, ts[k].x) < Px(50))
  /\ ~(x < Px(50) \/ x > Px(WIDTH) - Px(50))

\* placeTower(x, y) with a tower type selected, "none" for null, on the
\* record S of the economy and the towers
placeTower(S, selectedTowerType, x) ==
  IF selectedTowerType = "none" THEN S
  ELSE IF ~canPlaceTower(S.towers, snapToGrid(x)) THEN S
  ELSE IF ~canAfford(S.economy, TOWER_STATS[selectedTowerType].baseCost) THEN S
  ELSE [economy |-> spendGold(S.economy,
                              TOWER_STATS[selectedTowerType].baseCost).economy,
        towers |-> Append(S.towers, NewTower(snapToGrid(x), selectedTowerType))]

\* the Economy object of the scene
Economy == [gold |-> gold]

\* the amounts handed to the Economy, the pointer positions and the
\* selections of placeTower
Amounts == {-50, 0, 75, 600}
Pointers == {Px(10), Px(100), Px(230), Px(250), Px(420), Px(1270)}
Selections == {"none", "arrow", "tesla"}

\* call, in SpecEconomy: the calls made, the last call [op, kind, amount,
\* result, before] with the balance before it, and the call before that one
NoOp ==
  [op |-> "none", kind |-> "none", amount |-> 0, result |-> FALSE, before |-> 0]

InitEconomy ==
  /\ time = 0
  /\ currentWave = 0
  /\ waveState = IdleWaveState
  /\ currentComposition = NoComposition
  /\ spawnTimers = <<>>
  /\ skipTimers = <<>>
  /\ enemies = <<>>
  /\ towers = <<>>
  /\ projectiles = <<>>
  /\ gold = STARTING_GOLD
  /\ lives = STARTING_LIVES
  /\ skipUsed = FALSE
  /\ idle = 0
  /\ log = <<>>
  /\ call = [calls |-> 0, last |-> NoOp, prev |-> NoOp]

\* the state a call of the Economy leaves
EconomyCalled(op, kind, amount, result, G) ==
  /\ call.calls < MaxOps
  /\ gold' = G.gold
  /\ call' = [calls |-> call.calls + 1,
              last |-> [op |-> op, kind |-> kind, amount |-> amount,
                        result |-> result, before |-> gold],
              prev |-> call.last]
  /\ UNCHANGED <<time, currentWave, waveState, currentComposition, spawnTimers,
                 skipTimers, enemies, projectiles, lives, skipUsed, idle, log>>

SpendGold(amount) ==
  /\ EconomyCalled("spendGold", "gold", amount,
                   spendGold(Economy, amount).result,
                   spendGold(Economy, amount).economy)
  /\ UNCHANGED towers

AddGold(amount) ==
  /\ EconomyCalled("addGold", "gold", amount, TRUE, addGold(Economy, amount))
  /\ UNCHANGED towers

AwardEnemyKill(reward) ==
  /\ EconomyCalled("awardEnemyKill", "gold", reward, TRUE,
                   awardEnemyKill(Economy, reward))
  /\ UNCHANGED towers

AwardWaveComplete(bonus) ==
  /\ EconomyCalled("awardWaveComplete", "gold", bonus, TRUE,
                   awardWaveComplete(Economy, bonus))
  /\ UNCHANGED towers

RefundGold(amount) ==
  /\ EconomyCalled("refundGold", "gold", amount, TRUE, refundGold(Economy, amount))
  /\ UNCHANGED towers

SetGold(amount) ==
  /\ EconomyCalled("setGold", "gold", amount, TRUE, setGold(Economy, amount))
  /\ UNCHANGED towers

\* a click at x with the selection: the call records the selection as its
\* kind, the pointer as its amount and whether a tower was made
PlaceTower(selectedTowerType, x) ==
  /\ EconomyCalled("placeTower", selectedTowerType, x,
                   placeTower([economy |-> Economy, towers |-> towers],
                              selectedTowerType, x).towers # towers,
                   placeTower([economy |-> Economy, towers |-> towers],
                              selectedTowerType, x).economy)
  /\ towers' = placeTower([economy |-> Economy, towers |-> towers],
                          selectedTowerType, x).towers

NextEconomy ==
  \/ \E amount \in Amounts : SpendGold(amount)
  \/ \E amount \in Amounts : AddGold(amount)
  \/ \E amount \in Amounts : AwardEnemyKill(amount)
  \/ \E amount \in Amounts : AwardWaveComplete(amount)
  \/ \E amount \in Amounts : RefundGold(amount)
  \/ \E amount \in Amounts : SetGold(amount)
  \/ \E selectedTowerType \in Selections, x \in Pointers :
       PlaceTower(selectedTowerType, x)

SpecEconomy == InitEconomy /\ [][NextEconomy]_vars

----------------------------------------------------------------------------
(* PathSystem on its own: a path system made of given waypoints, and a       *)
(* follower that travels a time in one update and in several                 *)

\* calculatePathLength: the sum of the segment lengths from segment i up
RECURSIVE calculatePathLength(_, _)
calculatePathLength(waypoints, i) ==
  IF i >= Len(waypoints) THEN 0
  ELSE distance(waypoints[i], waypoints[i + 1])
         + calculatePathLength(waypoints, i + 1)

\* new PathSystem(waypoints): every list of waypoints makes one
PathSystem(waypoints) ==
  [path |-> waypoints, totalPathLength |-> calculatePathLength(waypoints, 1)]

\* a follower of the path system ps at its start, as an attacker holds it:
\* the cursor of initializeFollower, the place of getStartPosition (not
\* read on a path without a waypoint) and whether the last update
\* returned null
followerAtStart(ps) ==
  [follower |-> [currentWaypointIndex |-> 0,
                 targetWaypoint |-> IF Len(ps.path) > 1 THEN 1 ELSE -1,
                 distanceTraveled |-> 0],
   x |-> IF ps.path = <<>> THEN 0 ELSE ps.path[1],
   ended |-> FALSE]

\* EnemyBase.update, the move: the place is set from the result of
\* updateFollower unless that is null
followerMoved(c, r) ==
  [follower |-> r.follower, x |-> IF r.ended THEN c.x ELSE r.x, ended |-> r.ended]

moveAlong(c, speed, delta) ==
  followerMoved(c, updateFollower(c.follower, c.x, speed, delta))

\* call, in SpecPath: the path system, the speed, the time to travel and
\* what is left of it, the follower after one update of the whole time
\* (one), the follower updated step by step (many), and the updates made
\* after many had reached the end (late)
InitPathOf(paths) ==
  /\ time = 0
  /\ currentWave = 0
  /\ waveState = IdleWaveState
  /\ currentComposition = NoComposition
  /\ spawnTimers = <<>>
  /\ skipTimers = <<>>
  /\ enemies = <<>>
  /\ towers = <<>>
  /\ projectiles = <<>>
  /\ gold = STARTING_GOLD
  /\ lives = STARTING_LIVES
  /\ skipUsed = FALSE
  /\ idle = 0
  /\ log = <<>>
  /\ \E waypoints \in paths, speed \in {500, 1000}, quarters \in 1..MaxTravel :
       call = [system |-> PathSystem(waypoints), speed |-> speed,
               total |-> quarters * 250, left |-> quarters * 250,
               one |-> moveAlong(followerAtStart(PathSystem(waypoints)), speed,
                                 quarters * 250),
               many |-> followerAtStart(PathSystem(waypoints)),
               late |-> 0]

\* the level's path
InitPath == InitPathOf({path})

\* any list of waypoints handed to the constructor
InitPathAny == InitPathOf({<<>>, <<Px(0)>>, path})

\* pathSystem.updateFollower for a step of delta ms
UpdateFollower(delta) ==
  /\ delta <= call.left
  /\ call' = [call EXCEPT !.left = @ - delta,
                          !.many = moveAlong(@, call.speed, delta),
                          !.late = IF call.many.ended THEN @ + 1 ELSE @]
  /\ UNCHANGED <<time, currentWave, waveState, currentComposition, spawnTimers,
                 skipTimers, enemies, towers, projectiles, gold, lives, skipUsed,
                 idle, log>>

NextPath == \E delta \in {250, 500, 1500} : UpdateFollower(delta)

SpecPath == InitPath /\ [][NextPath]_vars

SpecPathAny == InitPathAny /\ [][NextPath]_vars


----------------------------------------------------------------------------
(* generateWaveComposition called on its own, between scheduler steps *)

NoGenerated == [calls |-> 0, waveNumber |-> 0, last |-> NoComposition, prev |-> NoComposition]

InitCompose ==
  /\ time = 0
  /\ currentWave = 0
  /\ waveState = IdleWaveState
  /\ currentComposition = NoComposition
  /\ spawnTimers = <<>>
  /\ skipTimers = <<>>
  /\ enemies = <<>>
  /\ towers = <<>>
  /\ projectiles = <<>>
  /\ gold = STARTING_GOLD
  /\ lives = STARTING_LIVES
  /\ skipUsed = FALSE
  /\ idle = 0
  /\ call = NoGenerated
  /\ log = <<>>

\* generateWaveComposition(waveNumber): the value is returned, nothing is
\* written; a second call is made with the index of the first
GenerateWaveComposition(waveNumber) ==
  /\ call.calls < MaxGenerated
  /\ call.calls > 0 => waveNumber = call.waveNumber
  /\ call' = [calls |-> call.calls + 1, waveNumber |-> waveNumber,
              last |-> generateWaveComposition(waveNumber), prev |-> call.last]
  /\ log' = <<Ev("generateWaveComposition", 0, waveNumber, "")>>
  /\ UNCHANGED <<time, currentWave, waveState, currentComposition, spawnTimers,
                 skipTimers, enemies, towers, projectiles, gold, lives, skipUsed, idle>>

NextCompose ==
  \/ StartNextWave
  \/ SpawnTimerFires
  \/ \E i \in 1..Len(enemies) : EnemyReachesEnd(i)
  \/ \E waveNumber \in 1..MaxWaveIndex : GenerateWaveComposition(waveNumber)

SpecCompose == InitCompose /\ [][NextCompose]_vars

----------------------------------------------------------------------------
(* The game scene under the speed buttons and the pause key of the UI.       *)
(* time is the time stamp the game loop hands to update; it runs on while    *)
(* the scene is paused.                                                      *)

\* registry 'gameSpeed' with the time scale of the scene's Clock, and the
\* running state of the scene
NoControls ==
  [gameSpeed |-> 1, paused |-> FALSE, pausedAt |-> 0, changes |-> 0, pauses |-> 0]

InitSpeed ==
  /\ time = 0
  /\ currentWave = 0
  /\ waveState = IdleWaveState
  /\ currentComposition = NoComposition
  /\ spawnTimers = <<>>
  /\ skipTimers = <<>>
  /\ enemies = <<>>
  /\ \E S \in {{}, {1}, {2}} : towers = loadSavedState(S, 1)
  /\ projectiles = <<>>
  /\ gold = STARTING_GOLD
  /\ lives = STARTING_LIVES
  /\ skipUsed = FALSE
  /\ idle = 0
  /\ call = NoControls
  /\ log = <<>>

\* UIScene.setGameSpeed: the registry entry and the time scale of the Clock
setGameSpeed(controls, speed) == [controls EXCEPT !.gameSpeed = speed]

SetGameSpeed(speed) ==
  /\ call.changes < MaxSpeedChanges
  /\ call' = [setGameSpeed(call, speed) EXCEPT !.changes = @ + 1]
  /\ log' = <<Ev("setGameSpeed", 0, speed, "")>>
  /\ UNCHANGED <<time, currentWave, waveState, currentComposition, spawnTimers,
                 skipTimers, enemies, towers, projectiles, gold, lives, skipUsed, idle>>

\* the P key or the pause button: scene.pause()
PauseGame ==
  /\ ~call.paused
  /\ call.pauses < MaxPauses
  /\ call' = [call EXCEPT !.paused = TRUE, !.pausedAt = time, !.pauses = @ + 1]
  /\ log' = <<Ev("pause", 0, 0, "")>>
  /\ UNCHANGED <<time, currentWave, waveState, currentComposition, spawnTimers,
                 skipTimers, enemies, towers, projectiles, gold, lives, skipUsed, idle>>

\* PauseScene.resumeGame: scene.resume('GameScene')
ResumeGame ==
  /\ call.paused
  /\ call' = [call EXCEPT !.paused = FALSE]
  /\ log' = <<Ev("resume", 0, 0, "")>>
  /\ UNCHANGED <<time, currentWave, waveState, currentComposition, spawnTimers,
                 skipTimers, enemies, towers, projectiles, gold, lives, skipUsed, idle>>

\* the SPACE key of the running scene
StartNextWaveRunning == ~call.paused /\ StartNextWave

\* one frame of the game loop: a paused scene is skipped, its Clock, tweens
\* and update with it; a running scene gets the frame, its Clock scaled by
\* the time scale, its tweens and update(time, delta) not
LoopFrame(delta) ==
  /\ time + delta <= MaxLoopFrames * 100
  /\ IF call.paused
     THEN /\ time + delta <= call.pausedAt + MaxPausedFrames * 100
          /\ time' = time + delta
          /\ log' = <<>>
          /\ UNCHANGED <<currentWave, waveState, currentComposition, spawnTimers,
                         enemies, towers, projectiles, gold, lives, idle>>
     ELSE /\ waveState.isActive \/ idle < MaxIdle
          /\ FrameEnds(sceneUpdate(tweensUpdate(clockUpdate(World, call.gameSpeed * delta),
                                                delta),
                                   delta, time + delta),
                       time + delta)
  /\ UNCHANGED <<skipTimers, skipUsed, call>>

NextSpeed ==
  \/ StartNextWaveRunning
  \/ \E speed \in {1, 2} : SetGameSpeed(speed)
  \/ PauseGame
  \/ ResumeGame
  \/ \E delta \in Deltas : LoopFrame(delta)

SpecSpeed == InitSpeed /\ [][NextSpeed]_vars

----------------------------------------------------------------------------
(* The main menu: a new game, or a game continued from the saved snapshot   *)

\* MainMenuScene.startNewGame: the registry the game scene is started with
startNewGame ==
  [gold |-> STARTING_GOLD, lives |-> STARTING_LIVES, currentWave |-> 0,
   savedTowers |-> {}]

\* MainMenuScene.continueGame: the registry after a snapshot was loaded
continueGame(saveData) ==
  [gold |-> saveData.gold, lives |-> saveData.lives,
   currentWave |-> saveData.currentWave, savedTowers |-> saveData.towers]

\* the snapshots SaveSystem.autoSave can have written: gold down to 0 once
\* towers are bought, lives lost once a wave was started.  towers are places
\* in TowerSites.
SaveDatas ==
  {saveData \in [gold : {0, 120}, lives : {1, 2, STARTING_LIVES},
                 currentWave : 0..TOTAL_WAVES, towers : {{2, 4}}] :
     saveData.lives < STARTING_LIVES => saveData.currentWave >= 1}

\* GameScene.initializeSystems: the starting gold of the ledger,
\* registry.get('gold') || STARTING_GOLD
initializeSystems(registry) ==
  IF registry.gold # 0 THEN registry.gold ELSE STARTING_GOLD

\* GameScene.create after the menu: the ledger, the scheduler as its
\* constructor leaves it, the towers of the snapshot.  call keeps the registry
\* the scene was started with.
InitContinue ==
  /\ time = 0
  /\ currentWave = 0
  /\ waveState = IdleWaveState
  /\ currentComposition = NoComposition
  /\ spawnTimers = <<>>
  /\ skipTimers = <<>>
  /\ enemies = <<>>
  /\ projectiles = <<>>
  /\ skipUsed = FALSE
  /\ idle = 0
  /\ log = <<>>
  /\ \E continued \in BOOLEAN :
       \E registry \in IF continued
                       THEN {continueGame(saveData) : saveData \in SaveDatas}
                       ELSE {startNewGame} :
         /\ call = [continued |-> continued, registry |-> registry]
         /\ gold = initializeSystems(registry)
         /\ lives = registry.lives
         /\ towers = loadSavedState(registry.savedTowers, 1)

NextContinue ==
  \/ StartNextWave
  \/ SpawnTimerFires
  \/ \E i \in 1..Len(enemies) : EnemyReachesEnd(i)

SpecContinue == InitContinue /\ [][NextContinue]_vars

----------------------------------------------------------------------------
(* The game with a game loop that keeps calling update *)

\* the game loop calls the scene as long as a wave is active or a projectile
\* is in flight: the time stamp of the next frame
frameDue(delta) ==
  /\ time + delta <= TOTAL_WAVES * MaxWaveFrames * 100
  /\ waveState.isActive \/ projectiles # <<>> \/ idle < MaxIdle
  /\ time' = time + delta

\* one frame: the Clock, the TweenManager, then GameScene.update
Tick(delta) ==
  /\ frameDue(delta)
  /\ FrameEnds(sceneUpdate(tweensUpdate(clockUpdate(World, delta), delta), delta,
                           time + delta),
               time + delta)
  /\ UNCHANGED <<skipTimers, skipUsed, call>>

NextLive ==
  \/ StartNextWave
  \/ \E delta \in Deltas : Tick(delta)

\* the browser calls the game loop again and again: a frame that is due is
\* taken (the steps that advance the time stamp are the frames)
SpecLive == Init /\ [][NextLive]_vars /\ WF_time(\E delta \in Deltas : frameDue(delta))
----------------------------------------------------------------------------
(* Properties *)

HasEvent(l, op, id) == \E k \in 1..Len(l) : l[k].op = op /\ l[k].id = id

\* C1: every attacker on the field has 0 <= currentHP <= maxHP, whatever
\* damage it has taken, the killing hit and overkill included.
C1_HPWithinBounds ==
  \A i \in 1..Len(enemies) :
    0 <= enemies[i].currentHP /\ enemies[i].currentHP <= enemies[i].maxHP

\* C2: over a step no attacker returns to an earlier lifecycle state; an
\* attacker that leaves the field while MOVING reached the end of the path
\* and was not killed; an attacker that leaves it while DYING completed its
\* death tween; an attacker whose hit points are spent is no longer MOVING
\* but DYING; and an attacker that appears is a new object, numbered after
\* every attacker spawned before, so that a removed one never returns.
C2_LifecycleForward ==
  [][/\ \A i \in 1..Len(enemies) :
          LET e == enemies[i]
              j == IndexOfId(enemies', e.id, 1)
          IN /\ j # 0 => enemies'[j].enemyState >= e.enemyState
             /\ (j = 0 /\ e.enemyState = MOVING) =>
                  HasEvent(log', "reachedEnd", e.id) /\ ~HasEvent(log', "dead", e.id)
             /\ (j = 0 /\ e.enemyState = DYING) => HasEvent(log', "dead", e.id)
     /\ \A j \in 1..Len(enemies') :
          LET e == enemies'[j] IN
          /\ e.enemyState \in {MOVING, DYING}
          /\ e.currentHP <= 0 => e.enemyState = DYING
          /\ IndexOfId(enemies, e.id, 1) = 0 =>
               /\ waveState'.currentWave = waveState.currentWave
               /\ e.id > EnemyId(waveState.currentWave, waveState.enemiesSpawned)
               /\ e.id <= EnemyId(waveState.currentWave, waveState'.enemiesSpawned)]_vars

\* a killed attacker, its hit points spent, is on the field half way through
\* its death tween
C2_Witness ==
  \E i \in 1..Len(enemies) :
    /\ enemies[i].enemyState = DYING
    /\ enemies[i].tween > 0
    /\ enemies[i].currentHP <= 0

\* the step declares the wave complete
Completes == waveState.isActive /\ ~waveState'.isActive

NoActive(es) == \A i \in 1..Len(es) : ~isAlive(es[i])

C4_RejectedStartIsNoOp ==
  [][log' = <<Ev("startNextWave", 0, 0, "false")>> =>
       UNCHANGED <<currentWave, waveState, currentComposition, spawnTimers>>]_vars

\* the phase of GameScene.update (0: before it) an event belongs to
CodePhase(ev) ==
  IF ev.op \in {"fire"} THEN 1
  ELSE IF ev.op \in {"hit", "miss", "direct", "splash", "slow", "chain"} THEN 2
  ELSE IF ev.op \in {"move", "reachedEnd"} THEN 3
  ELSE 0

C6_HitsOnlyActiveTargets ==
  \A k \in 1..Len(log) : log[k].op = "hit" => log[k].amount = MOVING

----------------------------------------------------------------------------
(* Properties of one DamageSystem.applyDamage call: call holds its           *)
(* arguments, enemies the pool after it, log its takeDamage calls in order   *)

TargetId == call.pool[call.target].id

\* the index in the pool of the attacker named id
PoolIndex(id) == IndexOfId(call.pool, id, 1)

\* the hit points attacker k of the pool lost in the call
Lost(k) == call.pool[k].currentHP - enemies[k].currentHP

ChainEvents == SelectSeq(log, LAMBDA ev : ev.op = "chain")
SplashEvents == SelectSeq(log, LAMBDA ev : ev.op = "splash")

MaxHops == call.data.special.value \div 100

\* two neighbours of a line are spaced just under chainRange
JustUnder(gap) == chainRange - Px(1) <= gap /\ gap < chainRange

\* the pool is a line of MOVING attackers, each but the first just under
\* chainRange behind its neighbour, and the target is the first or the last
InLine ==
  LET xs == {call.pool[k].x : k \in 1..Len(call.pool)}
      tx == call.pool[call.target].x
  IN /\ \A k \in 1..Len(call.pool) : isAlive(call.pool[k])
     /\ Cardinality(xs) = Len(call.pool)
     /\ (\A x \in xs : x >= tx) \/ (\A x \in xs : x <= tx)
     /\ \A x \in xs :
          \/ \A y \in xs : x <= y
          \/ \E y \in xs : /\ y < x
                           /\ JustUnder(x - y)
                           /\ ~\E z \in xs : y < z /\ z < x

\* C7: a chain hit on the first of N MOVING attackers in a line spaced just
\* under chainRange damages exactly min(N, maxHops + 1) of them, the target
\* included, and hop h applies damage * 0.6 * 0.9^h as magic damage, each
\* hop strictly less than the hop before, in the amount handed to
\* takeDamage and in the hit points lost.
C7_ChainOnLine ==
  (call.made /\ call.data.special.type = "chain" /\ InLine) =>
    LET hops == ChainEvents IN
    /\ Cardinality({k \in 1..Len(call.pool) : Lost(k) > 0})
         = Min(Len(call.pool), MaxHops + 1)
    /\ Lost(call.target) > 0
    /\ Len(hops) = Min(Len(call.pool), MaxHops + 1) - 1
    /\ \A h \in 1..Len(hops) :
         /\ hops[h].kind = "magic"
         /\ Lost(PoolIndex(hops[h].id)) > 0
         /\ hops[h].amount * 10 * Pow(10, h - 1) = call.data.damage * 6 * Pow(9, h - 1)
    /\ \A h \in 1..(Len(hops) - 1) :
         /\ hops[h + 1].amount < hops[h].amount
         /\ Lost(PoolIndex(hops[h + 1].id)) < Lost(PoolIndex(hops[h].id))

\* a chain hit on the first of a line of more attackers than a chain reaches
C7_Witness ==
  /\ call.made
  /\ call.data.special.type = "chain"
  /\ InLine
  /\ Len(call.pool) > MaxHops + 1
  /\ Len(ChainEvents) = MaxHops

\* the attacker hop h starts from, and the attackers hit before hop h
HopSource(h) == IF h = 1 THEN call.target ELSE PoolIndex(ChainEvents[h - 1].id)
HitBefore(h) == {TargetId} \cup {ChainEvents[j].id : j \in 1..(h - 1)}

\* the attackers hop h may select: MOVING, not yet hit, and nearer to the
\* source of the hop than chainRange
HopCandidates(h) ==
  {k \in 1..Len(call.pool) :
     /\ isAlive(call.pool[k])
     /\ call.pool[k].id \notin HitBefore(h)
     /\ distance(call.pool[HopSource(h)].x, call.pool[k].x) < chainRange}

\* C8: every hop of a chain selects, among the attackers that are MOVING,
\* not yet hit in the chain and nearer than chainRange to the attacker of
\* the hop before (the target for the first hop), a nearest one, the
\* earliest in the list among equally near ones; the chain has at most
\* maxHops hops and ends before that only when no such attacker is left; so
\* no attacker, the target included, receives chain damage twice.
C8_ChainHops ==
  (call.made /\ call.data.special.type = "chain") =>
    LET hops == ChainEvents IN
    /\ Len(hops) <= MaxHops
    /\ Len(hops) < MaxHops => HopCandidates(Len(hops) + 1) = {}
    /\ \A h \in 1..Len(hops) :
         LET v == PoolIndex(hops[h].id)
             s == HopSource(h)
         IN /\ v \in HopCandidates(h)
            /\ \A c \in HopCandidates(h) :
                 /\ distance(call.pool[s].x, call.pool[v].x)
                      <= distance(call.pool[s].x, call.pool[c].x)
                 /\ distance(call.pool[s].x, call.pool[v].x)
                      = distance(call.pool[s].x, call.pool[c].x) => v <= c
            /\ Lost(v) = finalDamage(call.pool[v], hops[h].amount, "magic")
    /\ \A h \in 1..Len(hops), g \in 1..Len(hops) : hops[h].id = hops[g].id => h = g
    /\ \A h \in 1..Len(hops) : hops[h].id # TargetId

\* a chain that ends early, out of attackers in range, with attackers of the
\* pool left unhit, one of them not MOVING
C8_Witness ==
  /\ call.made
  /\ call.data.special.type = "chain"
  /\ Len(ChainEvents) >= 1
  /\ Len(ChainEvents) < MaxHops
  /\ Len(call.pool) > Len(ChainEvents) + 1
  /\ \E k \in 1..Len(call.pool) : ~isAlive(call.pool[k]) /\ k # call.target

SplashRadius ==
  IF call.data.special.radius = 0 THEN Px(80) ELSE Px(call.data.special.radius)

\* the attackers a splash reaches: not the target, MOVING, within the radius
SplashReach ==
  {k \in 1..Len(call.pool) :
     /\ k # call.target
     /\ isAlive(call.pool[k])
     /\ distance(call.pool[call.target].x, call.pool[k].x) <= SplashRadius}

\* C9: on a splash hit exactly the attackers other than the target that are
\* MOVING and at distance <= radius of the target take splash damage, once
\* each, of damage * splashFactor * (1 - d / (2 * radius)), that is the full
\* splash damage at distance 0 and half of it at the radius; the target
\* takes no splash damage, and every other attacker is left as it was.
C9_SplashReach ==
  (call.made /\ call.data.special.type = "splash") =>
    LET evs == SplashEvents
        splashDamage == (call.data.damage * call.data.special.value) \div 100
    IN
    /\ Len(evs) = Cardinality(SplashReach)
    /\ \A k \in SplashReach :
         \E j \in 1..Len(evs) :
           LET d == distance(call.pool[call.target].x, call.pool[k].x) IN
           /\ evs[j].id = call.pool[k].id
           /\ evs[j].kind = "physical"
           /\ evs[j].amount * 2 * SplashRadius = splashDamage * (2 * SplashRadius - d)
           /\ d = 0 => evs[j].amount = splashDamage
           /\ d = SplashRadius => 2 * evs[j].amount = splashDamage
           /\ Lost(k) = finalDamage(call.pool[k], evs[j].amount, "physical")
    /\ \A j \in 1..Len(evs) : evs[j].id # TargetId
    /\ Lost(call.target) =
         IF isAlive(call.pool[call.target])
         THEN finalDamage(call.pool[call.target], call.data.damage, "physical")
         ELSE 0
    /\ \A k \in 1..Len(call.pool) :
         (k # call.target /\ k \notin SplashReach) => enemies[k] = call.pool[k]

\* a splash with an attacker exactly at the radius, one beyond it and one
\* within it that is not MOVING
C9_Witness ==
  /\ call.made
  /\ call.data.special.type = "splash"
  /\ \E k \in SplashReach :
       distance(call.pool[call.target].x, call.pool[k].x) = SplashRadius
  /\ \E k \in 1..Len(call.pool) :
       distance(call.pool[call.target].x, call.pool[k].x) > SplashRadius
  /\ \E k \in 1..Len(call.pool) :
       /\ k # call.target
       /\ ~isAlive(call.pool[k])
       /\ distance(call.pool[call.target].x, call.pool[k].x) <= SplashRadius

\* C10: whatever the special effect, none and buff included, the first
\* thing a damage resolution does is takeDamage(damage, physical) on the
\* target, once; every splash, slow and chain call comes after it, and a
\* target the direct damage kills is DYING when they are evaluated, so that
\* it takes no more damage in the call.
C10_DirectDamageFirst ==
  call.made =>
    /\ Len(log) >= 1
    /\ log[1] = Ev("direct", TargetId, call.data.damage, "physical")
    /\ \A k \in 2..Len(log) : log[k].op \in {"splash", "slow", "chain"}
    /\ call.data.special.type \in {"none", "buff"} => Len(log) = 1
    /\ call.data.special.type = "slow" =>
         log = <<log[1], Ev("slow", TargetId, call.data.special.duration * 1000, "slow")>>
    /\ \A k \in 2..Len(log) : log[k].op \in {"splash", "chain"} => log[k].id # TargetId
    /\ Lost(call.target) =
         IF isAlive(call.pool[call.target])
         THEN finalDamage(call.pool[call.target], call.data.damage, "physical")
         ELSE 0
    /\ (isAlive(call.pool[call.target]) /\ enemies[call.target].currentHP <= 0)
         => enemies[call.target].enemyState = DYING

\* a chain hit that kills its target and still hops on
C10_Witness ==
  /\ call.made
  /\ call.data.special.type = "chain"
  /\ isAlive(call.pool[call.target])
  /\ enemies[call.target].enemyState = DYING
  /\ Len(log) > 2

----------------------------------------------------------------------------
(* Properties of EnemyBase, under SpecEnemy and SpecStatus *)

\* the step is the call op of a public method of the attacker
Called(op) == log' # <<>> /\ log'[1].op = op /\ call'.calls = call.calls + 1

\* the effective amount of a hit: physical max(1, amount - armor), magic
\* amount x (1 - resist)
Effective(e, amount, damageType) ==
  IF damageType = "physical"
  THEN (IF amount - e.armor > Hp(1) THEN amount - e.armor ELSE Hp(1))
  ELSE amount - (amount * e.resist) \div 100

\* C11: takeDamage on an Active attacker reduces currentHP by the effective
\* amount (physical: max(1, amount - armor); magic: amount x (1 - resist),
\* resist within [0, 0.8] for every kind and wave), and the attacker becomes
\* Dying exactly when currentHP - effective <= 0, staying Active otherwise.
C11_TakeDamageEffective ==
  [][(Called("takeDamage") /\ isAlive(enemies[1])) =>
       /\ enemies[1].resist \in 0..80
       /\ enemies'[1].currentHP =
            enemies[1].currentHP
              - Effective(enemies[1], log'[1].amount, log'[1].kind)
       /\ enemies'[1].enemyState =
            IF enemies[1].currentHP
                 - Effective(enemies[1], log'[1].amount, log'[1].kind) <= 0
            THEN DYING ELSE MOVING]_vars

\* C11 witness: an attacker of maxHP 50 and armor 0 after its fourth hit of
\* 15 physical damage: 35, 20, 5, and Dying at 5 - 15.
C11_Witness ==
  /\ enemies[1].maxHP = Hp(50)
  /\ enemies[1].armor = 0
  /\ call.calls = 4
  /\ log = <<Ev("takeDamage", enemies[1].id, Hp(15), "physical")>>
  /\ enemies[1].currentHP = Hp(5) - Hp(15)
  /\ enemies[1].enemyState = DYING

\* currentHP after the damage-over-time ticks of one update, from the last
\* effect to the first, as long as the attacker is Active
RECURSIVE AfterTicks(_, _, _, _)
AfterTicks(e, hp, i, now) ==
  IF i < 1 THEN hp
  ELSE AfterTicks(e,
                  IF /\ hp > 0
                     /\ e.statusEffects[i].type \in {"poison", "burn"}
                     /\ now - e.statusEffects[i].lastTick >= e.statusEffects[i].tickRate
                  THEN hp - Effective(e, e.statusEffects[i].value, "magic")
                  ELSE hp,
                  i - 1, now)

\* C12: an attacker that is not Active (Dying or Removed) is not damageable:
\* a takeDamage call on it leaves currentHP and state as they are, a
\* damage-over-time tick that finds it Dying within an update takes nothing
\* more, and it is rewarded once, when the death tween of its kill ends.
C12_NotDamageableUnlessActive ==
  [][/\ ~isAlive(enemies[1]) =>
          /\ enemies'[1].currentHP = enemies[1].currentHP
          /\ \/ enemies'[1].enemyState = enemies[1].enemyState
             \/ /\ enemies[1].enemyState = DYING
                /\ enemies'[1].enemyState = DEAD
                /\ HasEvent(log', "dead", enemies[1].id)
          /\ Called("takeDamage") =>
               enemies'[1].enemyState = enemies[1].enemyState /\ gold' = gold
     /\ (isAlive(enemies[1]) /\ time' # time) =>
          enemies'[1].currentHP =
            AfterTicks(enemies[1], enemies[1].currentHP,
                       Len(enemies[1].statusEffects), time')
     /\ gold' # gold =>
          /\ enemies[1].tween >= 0
          /\ enemies'[1].tween < 0
          /\ enemies'[1].enemyState = DEAD
          /\ gold' = gold + enemies[1].reward]_vars

\* C12 witness: takeDamage was called on an attacker already removed.
C12_Witness ==
  /\ enemies[1].enemyState = DEAD
  /\ ~enemies[1].active
  /\ enemies[1].currentHP <= 0
  /\ log # <<>>
  /\ log[1].op = "takeDamage"

\* the places of the effects of a type among the effects of attacker e
OfType(e, type) == {i \in 1..Len(e.statusEffects) : e.statusEffects[i].type = type}

\* C13: adding a status effect of a kind the attacker already carries leaves
\* exactly one effect of that kind, in its place, with the magnitude of one
\* of the two (never their sum) and as remaining duration the longer of the
\* remaining duration and the new duration; the other effects stay.
C13_SameKindMerges ==
  [][(Called("addStatusEffect") /\ OfType(enemies[1], call'.effect.type) # {}) =>
       /\ OfType(enemies'[1], call'.effect.type) = OfType(enemies[1], call'.effect.type)
       /\ Cardinality(OfType(enemies'[1], call'.effect.type)) = 1
       /\ Len(enemies'[1].statusEffects) = Len(enemies[1].statusEffects)
       /\ \A i \in 1..Len(enemies[1].statusEffects) :
            IF i \in OfType(enemies[1], call'.effect.type)
            THEN /\ enemies'[1].statusEffects[i].duration =
                      IF enemies[1].statusEffects[i].duration > call'.effect.duration
                      THEN enemies[1].statusEffects[i].duration
                      ELSE call'.effect.duration
                 /\ enemies'[1].statusEffects[i].value
                      \in {enemies[1].statusEffects[i].value, call'.effect.value}
            ELSE enemies'[1].statusEffects[i] = enemies[1].statusEffects[i]]_vars

\* C13 witness: slow 0.5 for 1000 ms, then slow 0.5 for 2000 ms: one slow of
\* magnitude 0.5 with 2000 ms to run.
C13_Witness ==
  /\ call.calls = 2
  /\ call.slows = {[value |-> 50, until |-> 1000], [value |-> 50, until |-> 2000]}
  /\ call.effect = StatusEffect("slow", 50, 2000, 0)
  /\ Len(enemies[1].statusEffects) = 1
  /\ enemies[1].statusEffects[1].type = "slow"
  /\ enemies[1].statusEffects[1].value = 50
  /\ enemies[1].statusEffects[1].duration = 2000

\* the strongest magnitude among the slows, 0 when there is none
Strongest(slows) ==
  IF slows = {} THEN 0
  ELSE CHOOSE m \in {s.value : s \in slows} : \A s \in slows : s.value <= m

\* C14: the speed factor an Active attacker moves with in an update is
\* max(0.1, 1 - m), m the strongest magnitude among the slows handed to it
\* that have not yet run out (0 when there is none).
C14_StrongestSlowWins ==
  [][\A k \in 1..Len(log') :
       (time' # time /\ log'[k].op \in {"move", "reachedEnd"}) =>
         log'[k].amount =
           IF 100 - Strongest(call'.slows) < 10 THEN 10
           ELSE 100 - Strongest(call'.slows)]_vars

----------------------------------------------------------------------------
(* Properties of TargetingSystem, under SpecTarget *)

\* the places in the list of the Active attackers within the range, the
\* boundary included
Eligible ==
  {k \in 1..Len(enemies) :
     /\ enemies[k].enemyState = MOVING
     /\ Abs(enemies[k].x - call.towerX) <= call.range}

\* what the strategy of the call maximises
Metric(k) ==
  IF call.mode = "first" THEN enemies[k].pathFollower.distanceTraveled
  ELSE IF call.mode = "closest" THEN -Abs(enemies[k].x - call.towerX)
  ELSE IF call.mode = "strongest" THEN enemies[k].currentHP
  ELSE -enemies[k].currentHP

\* C15: findTarget returns none exactly when no attacker is Active within
\* the range (distance = range counts as within); otherwise it returns an
\* Active attacker within the range that is extremal for the strategy:
\* FIRST most path progress, CLOSEST least distance, STRONGEST most
\* currentHP, WEAKEST least currentHP.
C15_FindTargetExtremal ==
  call.made =>
    /\ call.result = 0 <=> Eligible = {}
    /\ call.result # 0 =>
         /\ call.result \in Eligible
         /\ \A k \in Eligible : Metric(k) <= Metric(call.result)

\* C15 witness: the attacker chosen stands exactly at the range, and another
\* Active attacker of the list is out of range.
C15_Witness ==
  /\ call.made
  /\ call.result # 0
  /\ Abs(enemies[call.result].x - call.towerX) = call.range
  /\ \E k \in 1..Len(enemies) :
       /\ enemies[k].enemyState = MOVING
       /\ Abs(enemies[k].x - call.towerX) > call.range

----------------------------------------------------------------------------
(* Properties of TowerBase, under SpecTower *)

\* the step is an update call of the tower
Ticked == call'.ticks = call.ticks + 1

\* the time since the shot at time last is shorter than 1 / fireRate seconds
Within(last, now, fireRate) == (now - last) * fireRate < 1000000

\* C17: an update of a defender on cooldown is a no-op; between two
\* consecutive shots of a defender at least 1 / fireRate seconds pass; an
\* update emits at most one projectile; an update that finds no target
\* emits nothing and starts no cooldown.
C17_CooldownRespected ==
  [][Ticked =>
       /\ Len(projectiles') <= 1
       /\ Len(projectiles') = 1 <=> log'[1].op = "fire"
       /\ log'[1].op = "fire" =>
            /\ towers[1].fireRate > 0
            /\ call'.lastFire = time'
            /\ call'.prevFire # -1 =>
                 ~Within(call'.prevFire, call'.lastFire, towers[1].fireRate)
       /\ (call.lastFire # -1 /\ Within(call.lastFire, time', towers[1].fireRate)) =>
            /\ towers' = towers
            /\ projectiles' = <<>>
       /\ enemies' = <<>> =>
            /\ towers'[1].lastFireTime = towers[1].lastFireTime
            /\ call'.lastFire = call.lastFire
            /\ projectiles' = <<>>]_vars

\* C17 witness: a defender fires for the second time.
C17_Witness ==
  /\ log # <<>>
  /\ log[1].op = "fire"
  /\ Len(projectiles) = 1
  /\ call.lastFire = time
  /\ call.prevFire # -1

\* C18: upgrade() on a defender at maxLevel returns false and leaves level,
\* damage, range and fireRate as they are; otherwise it returns true and
\* raises the level by exactly 1; the level of a defender, restored from a
\* snapshot of any saved level or not, is always within 1..maxLevel.
C18_UpgradeWithinLevels ==
  [][/\ towers[1].level \in 1..TOWER_STATS[towers[1].towerType].maxLevel
     /\ towers'[1].level \in 1..TOWER_STATS[towers[1].towerType].maxLevel
     /\ (log' # <<>> /\ log'[1].op = "upgrade") =>
          IF towers[1].level = TOWER_STATS[towers[1].towerType].maxLevel
          THEN /\ log'[1].amount = 0
               /\ towers'[1].level = towers[1].level
               /\ towers'[1].damage = towers[1].damage
               /\ towers'[1].range = towers[1].range
               /\ towers'[1].fireRate = towers[1].fireRate
          ELSE /\ log'[1].amount = 1
               /\ towers'[1].level = towers[1].level + 1]_vars

\* C18 witness: upgrade() was refused at maxLevel.
C18_Witness ==
  /\ towers[1].level = TOWER_STATS[towers[1].towerType].maxLevel
  /\ log # <<>>
  /\ log[1].op = "upgrade"
  /\ log[1].amount = 0

\* C19: at level k + 1, after k upgrades, the damage of a defender and of
\* the projectile it fires is baseDamage x (1 + 0.5 x k).
C19_DamageHalfPerLevel ==
  /\ towers[1].damage =
       (Hp(TOWER_STATS[towers[1].towerType].baseDamage)
          * (10 + 5 * (towers[1].level - 1))) \div 10
  /\ (log # <<>> /\ log[1].op = "fire") =>
       projectiles[1].damage =
         (Hp(TOWER_STATS[towers[1].towerType].baseDamage)
            * (10 + 5 * (towers[1].level - 1))) \div 10

\* C20: the projectile a defender fires carries the projectile speed of its
\* kind and the special-effect descriptor of its kind with the value scaled
\* by the defender's level, +25% per level above the first.
C20_ProjectileCarriesScaledSpecial ==
  (log # <<>> /\ log[1].op = "fire") =>
    /\ projectiles[1].speed = Px(TOWER_STATS[towers[1].towerType].projectileSpeed)
    /\ projectiles[1].special =
         [TOWER_STATS[towers[1].towerType].special EXCEPT
            !.value = (@ * (100 + 25 * (towers[1].level - 1))) \div 100]

\* the supportTowers list of calculateBuffMultiplier: the support-kind
\* defenders of ts, each with its level, its range and the buff value of
\* its kind
RECURSIVE SupportTowers(_)
SupportTowers(ts) ==
  IF ts = <<>> THEN <<>>
  ELSE (IF TOWER_STATS[Head(ts).towerType].special.type = "buff"
        THEN <<[x |-> Head(ts).x, level |-> Head(ts).level,
                range |-> Head(ts).range,
                buffValue |-> TOWER_STATS[Head(ts).towerType].special.value]>>
        ELSE <<>>) \o SupportTowers(Tail(ts))

\* C21: the damage of the projectile a defender fires is the damage of its
\* level times the aura multiplier of this tick: 1 plus, for every
\* support-kind defender within whose range it stands, that defender's
\* buffValue weighted by its level; 1 when none is in reach.
C21_FiredDamageIncludesBuff ==
  (log # <<>> /\ log[1].op = "fire") =>
    projectiles[1].damage =
      (towers[1].damage
         * calculateBuffMultiplier(towers[1].x,
                                   SupportTowers(Tail(towers))).damageMultiplier)
        \div 1000

\* the gold paid for a defender of a kind at a level: its base cost and the
\* upgrade cost of every level below
RECURSIVE Spend(_, _)
Spend(towerType, level) ==
  IF level <= 1 THEN TOWER_STATS[towerType].baseCost
  ELSE Spend(towerType, level - 1)
         + getUpgradeCost([towerType |-> towerType, level |-> level - 1])

\* C22: at every level 1..maxLevel of every kind the sell value is
\* floor(0.7 x the cumulative spend), TowerBase.getSellValue agrees with
\* getTowerSellValue(kind, level), the value does not exceed the spend, and
\* it is no less than the value at any lower level.
C22_SellValueOfSpend ==
  /\ towers[1].level \in 1..TOWER_STATS[towers[1].towerType].maxLevel
  /\ getSellValue(towers[1])
       = (7 * Spend(towers[1].towerType, towers[1].level)) \div 10
  /\ getSellValue(towers[1])
       = getTowerSellValue(towers[1].towerType, towers[1].level)
  /\ getSellValue(towers[1]) <= Spend(towers[1].towerType, towers[1].level)
  /\ \A k \in 1..towers[1].level :
       getTowerSellValue(towers[1].towerType, k) <= getSellValue(towers[1])

\* the hits and misses, and the shots fired, that a log records
Outcomes(l) == Cardinality({k \in 1..Len(l) : l[k].op \in {"hit", "miss"}})
Shots(l) == Cardinality({k \in 1..Len(l) : l[k].op = "fire"})

\* C23: a projectile has one outcome at most.  Over every step, a hit is
\* declared on a MOVING target only; the hits and misses of the step are no
\* more than the projectiles that had no outcome yet, those fired in the
\* step included, so that none is hit and missed or resolved twice; and a
\* projectile that has had its outcome leaves the field or stays where it
\* is, fading, without another move or test.
C23_OneOutcomePerProjectile ==
  [][/\ \A k \in 1..Len(log') : log'[k].op = "hit" => log'[k].amount = MOVING
     /\ Outcomes(log')
          <= Cardinality({i \in 1..Len(projectiles) : ~projectiles[i].hasHit})
               + Shots(log')
     /\ \A i \in 1..Len(projectiles) :
          projectiles[i].hasHit =>
            \/ ~fadeUpdate(projectiles[i], time' - time).active
            \/ \E j \in 1..Len(projectiles') :
                 projectiles'[j] = fadeUpdate(projectiles[i], time' - time)]_vars

----------------------------------------------------------------------------
(* Properties of the Economy and of placeTower, under SpecEconomy *)

\* C24: spendGold(amount) returns false and leaves the balance as it was
\* when amount <= 0 or the balance is below amount; otherwise it returns
\* true and the balance is lower by exactly amount.
C24_SpendGoldAllOrNothing ==
  call.last.op = "spendGold" =>
    IF call.last.amount <= 0 \/ call.last.before < call.last.amount
    THEN ~call.last.result /\ gold = call.last.before
    ELSE call.last.result /\ gold = call.last.before - call.last.amount

\* a spendGold of more than the balance holds, refused
C24_Witness ==
  /\ call.last.op = "spendGold"
  /\ call.last.amount > call.last.before
  /\ call.last.before > 0
  /\ ~call.last.result

\* C25: whatever calls of spendGold, addGold, awardEnemyKill,
\* awardWaveComplete, refundGold and setGold were made, with zero and
\* negative amounts among them, the balance is not negative; and a credit
\* of an amount <= 0 left the balance as it was.
C25_BalanceNeverNegative ==
  /\ gold >= 0
  /\ (/\ call.last.op \in {"addGold", "awardEnemyKill", "awardWaveComplete",
                            "refundGold"}
      /\ call.last.amount <= 0) => gold = call.last.before

\* setGold was called with a negative amount on a positive balance
C25_Witness ==
  /\ call.last.op = "setGold"
  /\ call.last.amount < 0
  /\ call.last.before > 0
  /\ gold = 0

\* C26: a spendGold(a) that succeeded on the balance b, followed by
\* addGold(a), leaves the balance b.
C26_SpendThenAddRestores ==
  (/\ call.last.op = "addGold"
   /\ call.prev.op = "spendGold"
   /\ call.prev.result
   /\ call.prev.amount = call.last.amount) => gold = call.prev.before

\* 75 gold were spent on a balance that is no multiple of it and added again
C26_Witness ==
  /\ call.last.op = "addGold"
  /\ call.prev.op = "spendGold"
  /\ call.prev.result
  /\ call.prev.amount = call.last.amount
  /\ call.last.amount = 75
  /\ gold = call.prev.before

\* C27: placeTower makes a defender exactly when the place passes
\* canPlaceTower and the balance is at least the base cost of the kind;
\* then the new defender joins the list and the balance is lower by exactly
\* the base cost; otherwise the list and the balance stay as they were.
C27_PlaceTowerChecked ==
  [][(call'.last.op = "placeTower" /\ call'.calls = call.calls + 1) =>
       IF /\ call'.last.kind # "none"
          /\ canPlaceTower(towers, snapToGrid(call'.last.amount))
          /\ gold >= TOWER_STATS[call'.last.kind].baseCost
       THEN /\ towers' = Append(towers, NewTower(snapToGrid(call'.last.amount),
                                                call'.last.kind))
            /\ gold' = gold - TOWER_STATS[call'.last.kind].baseCost
            /\ call'.last.result
       ELSE /\ towers' = towers
            /\ gold' = gold
            /\ ~call'.last.result]_vars

\* a tower stands at 224, and a tesla tower selected for a free place was
\* refused for want of gold
C27_Witness ==
  /\ Len(towers) = 1
  /\ towers[1].x = Px(224)
  /\ call.last.op = "placeTower"
  /\ call.last.kind = "tesla"
  /\ call.last.amount = Px(420)
  /\ ~call.last.result
  /\ gold < TOWER_STATS["tesla"].baseCost

----------------------------------------------------------------------------
(* Properties of the PathSystem, under SpecPath and SpecPathAny *)

\* C28: when the steps have used up the time, the follower updated step by
\* step has the place, the waypoint index and target, the distance
\* travelled and the reached-end result of the follower that was updated
\* once for the whole time.
C28_StepsAgreeWithOneUpdate ==
  call.left = 0 => call.many = call.one

\* C29: over every update the progress numerator stays within
\* 0..totalPathLength and does not decrease, distanceTraveled does not
\* exceed totalPathLength, and an update of a follower that has reached the
\* last waypoint returns null, leaves the cursor as it was and the progress
\* at 1.
C29_ProgressMonotoneAndFrozen ==
  [][/\ getProgress(call'.many.follower) \in 0..totalPathLength
     /\ getProgress(call'.many.follower) >= getProgress(call.many.follower)
     /\ call'.many.follower.distanceTraveled <= totalPathLength
     /\ call.many.follower.targetWaypoint = -1 =>
          /\ call'.many.ended
          /\ call'.many.follower = call.many.follower
          /\ getProgress(call'.many.follower) = totalPathLength]_vars

\* a follower that crossed both segments was updated again after the end
C29_Witness ==
  /\ call.late > 0
  /\ call.many.ended
  /\ call.many.follower.currentWaypointIndex = Len(path) - 1
  /\ call.many.follower.distanceTraveled = totalPathLength

\* C30: no path system is made of fewer than two waypoints, so that no
\* follower stands on one or is updated along one.
C30_DegeneratePathRejected ==
  Len(call.system.path) >= 2

----------------------------------------------------------------------------
(* Spawn schedule of a wave *)

\* the kind of the k-th attacker of a composition, counted across its groups
RECURSIVE TypeAt(_, _)
TypeAt(groups, k) ==
  IF k <= Head(groups).count THEN Head(groups).type
  ELSE TypeAt(Tail(groups), k - Head(groups).count)

\* the time after the start of the wave at which the k-th attacker is due:
\* the intervals of every attacker up to it, summed
RECURSIVE DelayAt(_, _)
DelayAt(groups, k) ==
  IF k <= Head(groups).count THEN k * Head(groups).interval
  ELSE Head(groups).count * Head(groups).interval
       + DelayAt(Tail(groups), k - Head(groups).count)

\* C31: within a wave the k-th attacker is due at the sum of the intervals up
\* to it and is of the kind of its group, group after group: the pending
\* timers are the rest of that schedule, none overdue, every attacker spawned
\* so far was due, the number spawned never exceeds the total, and a wave that
\* has completed has spawned the count of every group.
C31_SpawnsFollowSchedule ==
  LET groups == currentComposition.enemies
      n == waveState.enemiesSpawned
  IN
  /\ n <= waveState.totalEnemies
  /\ waveState.totalEnemies = SumCounts(groups)
  /\ waveState.isActive =>
       /\ Len(spawnTimers) = waveState.totalEnemies - n
       /\ \A j \in 1..Len(spawnTimers) :
            /\ spawnTimers[j].type = TypeAt(groups, n + j)
            /\ spawnTimers[j].delay = DelayAt(groups, n + j)
            /\ spawnTimers[j].elapsed < spawnTimers[j].delay
            /\ spawnTimers[j].elapsed = spawnTimers[1].elapsed
       /\ (n > 0 /\ spawnTimers # <<>>) => DelayAt(groups, n) <= spawnTimers[1].elapsed
  /\ \A i \in 1..Len(enemies) :
       \A k \in 1..waveState.totalEnemies :
         enemies[i].id = EnemyId(waveState.currentWave, k) =>
           /\ k <= n
           /\ enemies[i].enemyType = TypeAt(groups, k)
  /\ (~waveState.isActive /\ waveState.currentWave >= 1) =>
       /\ n = waveState.totalEnemies
       /\ spawnTimers = <<>>

\* the one tank of wave 2 has been spawned after its eight runners
C31_Witness ==
  /\ waveState.currentWave = 2
  /\ \E i \in 1..Len(enemies) :
       /\ enemies[i].id = EnemyId(2, 9)
       /\ enemies[i].enemyType = "tank"
  /\ waveState.enemiesSpawned = 9

----------------------------------------------------------------------------
(* Wave compositions *)

\* the boss formula and the normal formula, as the wave table states them
BossShape(c, w) ==
  /\ [k \in 1..Len(c.enemies) |-> c.enemies[k].type] = <<"runner", "tank", "boss">>
  /\ [k \in 1..Len(c.enemies) |-> c.enemies[k].count] = <<w \div 2, w \div 3, w \div 5>>
  /\ [k \in 1..Len(c.enemies) |-> c.enemies[k].interval] = <<1500, 2500, 5000>>
  /\ c.reward = 50 + 10 * w

NormalShape(c, w) ==
  /\ [k \in 1..Len(c.enemies) |-> c.enemies[k].type] = <<"runner", "tank">>
  /\ [k \in 1..Len(c.enemies) |-> c.enemies[k].count] = <<5 + (3 * w) \div 2, w \div 2>>
  /\ [k \in 1..Len(c.enemies) |-> c.enemies[k].interval] = <<1000, 2000>>
  /\ c.reward = 25 + 5 * w

----------------------------------------------------------------------------
(* Game speed and pause *)

\* the attackers that are on the path before and after a step
Survivors ==
  {ij \in (1..Len(enemies)) \X (1..Len(enemies')) :
     /\ enemies[ij[1]].id = enemies'[ij[2]].id
     /\ isAlive(enemies[ij[1]])
     /\ isAlive(enemies'[ij[2]])}

\* C33: in a frame of length delta at game speed s the pending spawn timers
\* advance by s * delta, an attacker that is not slowed moves by its speed
\* times s * delta, and the remaining duration of a status effect that was
\* not renewed in the frame shrinks by s * delta.
C33_SpeedScalesEveryTimer ==
  [][(time' # time /\ ~call.paused) =>
       LET s == call.gameSpeed
           delta == time' - time
       IN
       /\ (/\ waveState'.isActive
           /\ waveState'.currentWave = waveState.currentWave
           /\ spawnTimers # <<>>
           /\ spawnTimers' # <<>>) =>
            spawnTimers'[1].elapsed = spawnTimers[1].elapsed + s * delta
       /\ \A ij \in Survivors :
            LET e == enemies[ij[1]]
                e1 == enemies'[ij[2]]
            IN
            /\ (e.statusEffects = <<>> /\ e1.statusEffects = <<>>) =>
                 e1.x - e.x = (e.currentSpeed * s * delta) \div 1000
            /\ (/\ ~HasEvent(log', "slow", e.id)
                /\ Len(e1.statusEffects) = Len(e.statusEffects)) =>
                 \A k \in 1..Len(e.statusEffects) :
                   e1.statusEffects[k].duration = e.statusEffects[k].duration - s * delta]_vars

\* what is left of the cooldown of a tower at time now, in ms times the fire
\* rate
RemainingCooldown(t, now) ==
  IF t.fireRate = 0 THEN 0
  ELSE Max(0, 1000000 - (now - t.lastFireTime) * t.fireRate)

\* C34: while the scene is paused the pending spawn timers, the attackers
\* with their positions and status effects, and the projectiles stay as they
\* are, and at the resume every tower that has fired has as much of its
\* cooldown left as when the scene was paused.
C34_PauseFreezesTimers ==
  [][/\ call.paused => UNCHANGED <<spawnTimers, enemies, projectiles>>
     /\ (call.paused /\ ~call'.paused) =>
          \A i \in 1..Len(towers) :
            towers[i].lastFireTime > 0 =>
              RemainingCooldown(towers[i], time)
                = RemainingCooldown(towers[i], call.pausedAt)]_vars

----------------------------------------------------------------------------
(* Accounting of an attacker *)

\* C35: an attacker is accounted for once: its reward is credited at most
\* once, at most one life is lost for it, never both, and once it is DEAD with
\* no tween left exactly one of the two has happened.
C35_AccountedOnce ==
  LET e == enemies[1] IN
  /\ gold \in {STARTING_GOLD, STARTING_GOLD + e.reward}
  /\ lives \in {STARTING_LIVES, STARTING_LIVES - 1}
  /\ ~(gold # STARTING_GOLD /\ lives # STARTING_LIVES)
  /\ (e.enemyState = DEAD /\ e.tween < 0) =>
       (gold # STARTING_GOLD \/ lives # STARTING_LIVES)

----------------------------------------------------------------------------
(* A game continued from a snapshot *)

\* the scene has been created and nothing has happened since
Created == log = <<>>

\* C36: after continuing from a snapshot with wave index w the scheduler is
\* at wave w, so that TOTAL_WAVES - w waves are still to be played: the first
\* startNextWave starts wave w + 1 when there is one and fails otherwise.
C36_ContinueRestoresWave ==
  [][(Created /\ call.continued) =>
       LET w == call.registry.currentWave IN
       /\ currentWave = w
       /\ log'[1].op = "startNextWave" =>
            IF w < TOTAL_WAVES
            THEN /\ log'[1].kind = "true"
                 /\ waveState'.isActive
                 /\ waveState'.currentWave = w + 1
            ELSE log'[1].kind = "false"]_vars

\* C39: the lives are never negative; a step that changes them is the arrival
\* of an attacker at the end of the path and takes exactly one; an arrival
\* takes one as long as there is one, and none at 0.
C39_LivesNeverNegative ==
  [][/\ lives >= 0
     /\ lives' >= 0
     /\ lives' # lives =>
          /\ log'[1] = Ev("dead", log'[1].id, 0, "reachedEnd")
          /\ lives' = lives - 1
     /\ (log' # <<>> /\ log'[1].op = "dead") =>
          lives' = IF lives > 0 THEN lives - 1 ELSE 0]_vars

\* C40: when the game scene has been created the balance of the ledger is the
\* gold the registry handed to it, the reset value of a new game or the gold
\* of the snapshot, 0 included.
C40_LedgerStartsAtRegistryGold ==
  Created => gold = call.registry.gold

----------------------------------------------------------------------------
(* Progress *)

\* C37: a wave that has been started completes: every attacker scheduled has
\* been spawned, none is left on the field, and the scheduler is idle again.
C37_WaveCompletes ==
  waveState.isActive ~>
    (/\ ~waveState.isActive
     /\ spawnTimers = <<>>
     /\ waveState.enemiesSpawned = waveState.totalEnemies
     /\ waveState.enemiesRemaining = 0
     /\ enemies = <<>>)

\* wave 2 has completed, and its last attacker was the tank
C37_Witness ==
  /\ waveState.currentWave = 2
  /\ ~waveState.isActive
  /\ enemies = <<>>
  /\ \E k \in 1..Len(log) : log[k].id = EnemyId(2, 9) /\ log[k].op \in {"dead", "reachedEnd"}

\* C38: a projectile in flight is removed from the list of projectiles: one
\* that is left in the list after its hit or miss is fading out, and the list
\* becomes empty again, whatever became of the targets.
C38_ProjectilesTerminate ==
  /\ [](\A k \in 1..Len(projectiles) :
          projectiles[k].hasHit =>
            projectiles[k].fade >= 0 /\ projectiles[k].fade < MISS_FADE_MS)
  /\ (projectiles # <<>>) ~> (projectiles = <<>>)

\* a projectile is in flight and its target has left the field
C38_Witness ==
  \E k \in 1..Len(projectiles) :
    /\ ~projectiles[k].hasHit
    /\ IndexOfId(enemies, projectiles[k].target, 1) = 0

====
